---- MODULE Spec2Model ----
(***************************************************************************)
(* Karbos: carbon-aware batch job scheduler.                               *)
(*                                                                         *)
(* Four specifications over one set of variables:                          *)
(*   Spec        the job lifecycle: SubmitJob, the two Redis lanes, the    *)
(*               promoter and the consumers of the worker pool, over the   *)
(*               jobs table;                                               *)
(*   SpecStore   the JobRepository interface called directly;              *)
(*   SpecSched   CarbonScheduler.Schedule and the scheduling part of       *)
(*               SubmitJob, applied to bounded inputs;                     *)
(*   SpecBreaker the circuit breaker under concurrent callers.             *)
(* Each specification leaves the variables of the others at their initial  *)
(* values.                                                                 *)
(***************************************************************************)
EXTENDS Integers, Sequences, FiniteSets, TLC

(***************************************************************************)
(* Bounds of the model.                                                    *)
(***************************************************************************)
MaxJobs == 2
MaxSubmits == 1
NumWorkers == 2
MaxTime == 2
TicksPerSecond == 2
MaxQueue == 2
GhostCap == 2

JobIds == 1..MaxJobs
Workers == 1..NumWorkers
\* The consumer Pool.ScaleUp adds (it is "absent" until then), and all of them.
ScaledWorker == NumWorkers + 1
AllWorkers == Workers \cup {ScaledWorker}
Times == 0..MaxTime

\* models.JobStatus; NONE stands for "no row with this id".
JobStatusPending == "PENDING"
JobStatusDelayed == "DELAYED"
JobStatusRunning == "RUNNING"
JobStatusCompleted == "COMPLETED"
JobStatusFailed == "FAILED"
NoRow == "NONE"
JobStatuses ==
  {JobStatusPending, JobStatusDelayed, JobStatusRunning, JobStatusCompleted, JobStatusFailed}
Terminal == {JobStatusCompleted, JobStatusFailed}

VARIABLES
  \* ---- job lifecycle (Spec, SpecStore)
  status,        \* jobs table: id -> status column, NoRow when absent
  nextJob,       \* number of SubmitJob calls that drew a fresh uuid
  immediate,     \* Redis list karbos:queue:immediate, head first
  delayed,       \* Redis sorted set karbos:queue:delayed: set of queue items
  now,           \* wall clock (ticks of 1 / TicksPerSecond s; minutes in SpecSched)
  wpc,           \* consumer -> position in processNextJob / executeJob
  wjob,          \* consumer -> job id it holds (0 outside executeJob)
  wout,          \* consumer -> outcome of RunContainer
  ppc,           \* promoter position in promoteReadyJobs / promoteJob
  pitems,        \* promoter: items of the scan still to promote
  runTransitions,\* history: id -> accepted UpdateJobStatus(id, RUNNING), capped
  started,       \* history: id -> RunContainer calls, capped
  logs,          \* execution_logs: the rows written
  lastUpdate,    \* history (SpecStore): the last UpdateJobStatus call and its result
  resp,          \* the HTTP response of the last SubmitJob, and what happened inside it
  \* ---- scheduler (SpecSched)
  sreq,          \* the request under evaluation
  sres,          \* its result
  \* ---- circuit breaker (SpecBreaker)
  cbState, failures, lastStateTime, bnow, call, admittedIn, lastResult,
  openSince, lastEvent, r4phase,
  ckind,         \* caller -> which of the two breaker methods it is inside
  lastErr,       \* caller -> the error of its last return ("" for nil)
  \* ---- carbon fetcher over cache and breaker (SpecFetch); clock bnow in quarter hours
  cache,         \* carbon_cache table of one region: timestamp -> row, NoEntry when absent
  fres,          \* the last fetcher call: its arguments, what it saw and what it returned
  nfetch,        \* number of fetcher calls made
  \* ---- the immediate lane alone (SpecQueue), over `immediate'
  enqCount,      \* history: number of entries RPUSH has appended
  delivered,     \* history: the entries DequeueImmediate returned, in order, with the caller
  qlast,         \* the last DequeueImmediate call and its return
  \* ---- worker pool and shutdown (SpecPool), over the consumers of Spec
  shutdownDraining, \* Pool.shutdownDraining
  activeJobs,    \* Pool.activeJobs: the job ids tracked as running
  cancelled,     \* Pool.ctx is cancelled
  mpc,           \* worker main: position around workerPool.Stop()
  graceOver,     \* shutdownCtx (30 s after the signal) is done
  inFlightAtStop,\* history: the job ids consumers held when Stop was called
  \* ---- promoter history (SpecPromoter)
  promoted,      \* history: the job ids the promoter has pushed to the immediate lane
  \* ---- jobs table, all columns of one row (SpecRepo)
  jgiven,        \* the models.Job handed to CreateJob
  jrow,          \* the row INSERTed
  jread,         \* the models.Job GetJobByID returned
  containerConfig, \* the container.Config of the job's container
  \* ---- one Docker service and its daemon (SpecDocker)
  dpc,           \* position of the RunContainer call
  execCtx,       \* the ctx given to RunContainer: "live", "deadline" or "cancelled"
  dcontainer,    \* the daemon's state of the container this call created
  dresult,       \* the ContainerResult the call returns
  dremove,       \* history: the ContainerRemove request of this call
  druns          \* RunContainer calls so far, capped

jobVars == <<status, nextJob, immediate, delayed, now, wpc, wjob, wout, ppc, pitems,
             runTransitions, started, logs, lastUpdate, resp>>
schedVars == <<sreq, sres>>
breakerVars == <<cbState, failures, lastStateTime, bnow, call, admittedIn, lastResult,
                openSince, lastEvent, r4phase, ckind, lastErr>>
fetchVars == <<cache, fres, nfetch>>
queueVars == <<enqCount, delivered, qlast>>
poolVars == <<shutdownDraining, activeJobs, cancelled, mpc, graceOver, inFlightAtStop>>
promoVars == <<promoted>>
repoVars == <<jgiven, jrow, jread, containerConfig>>
dockerVars == <<dpc, execCtx, dcontainer, dresult, dremove, druns>>
vars == <<jobVars, schedVars, breakerVars, fetchVars, queueVars, poolVars, promoVars, repoVars, dockerVars>>

Bump(n) == IF n < GhostCap THEN n + 1 ELSE GhostCap

(***************************************************************************)
(* JobRepository                                                           *)
(***************************************************************************)

\* UPDATE jobs SET status = $1 WHERE id = $2: the statement carries no
\* condition on the current status; the only error besides a failed
\* statement is "job not found" when no row was affected.
UpdateJobStatus(st, id, newStatus, dbOk) ==
  IF ~dbOk THEN [err |-> "failed to update job status", st |-> st]
  ELSE IF st[id] = NoRow THEN [err |-> "job not found", st |-> st]
  ELSE [err |-> "", st |-> [st EXCEPT ![id] = newStatus]]

\* INSERT INTO jobs: the status given by the caller, PENDING when empty.
CreateJob(st, id, givenStatus, dbOk) ==
  IF ~dbOk THEN [err |-> "failed to create job", st |-> st]
  ELSE [err |-> "",
        st |-> [st EXCEPT ![id] = IF givenStatus = "" THEN JobStatusPending ELSE givenStatus]]

\* SELECT ... WHERE id = $1
GetJobByID(st, id, dbOk) ==
  IF ~dbOk THEN [err |-> "failed to get job", status |-> NoRow]
  ELSE IF st[id] = NoRow THEN [err |-> "job not found", status |-> NoRow]
  ELSE [err |-> "", status |-> st[id]]

NoUpdate == [id |-> 0, from |-> NoRow, to |-> NoRow, err |-> ""]

(***************************************************************************)
(* RedisQueue                                                              *)
(***************************************************************************)

QueueItem(id, t) == [jobID |-> id, scheduledTime |-> t]

\* time.Time.Unix(): whole seconds, the fraction dropped.  Instants are
\* counted in ticks of 1 / TicksPerSecond seconds.
Unix(t) == t \div TicksPerSecond

\* EnqueueDelayed: score = ScheduledTime.Unix()
Score(item) == Unix(item.scheduledTime)

\* Variant: LPUSH, the entry goes to the head of the list.
EnqueueImmediateAtHead(q, item) == <<item>> \o q

\* RPUSH
EnqueueImmediate(q, item) == Append(q, item)

\* ZADD: a set keyed by the member blob
EnqueueDelayed(z, item) == z \cup {item}

\* ZRANGEBYSCORE -inf now: ascending by score, then by member
Before(a, b) ==
  \/ Score(a) < Score(b)
  \/ Score(a) = Score(b) /\ a.jobID < b.jobID

RECURSIVE SortItems(_)
SortItems(S) ==
  IF S = {} THEN <<>>
  ELSE LET m == CHOOSE x \in S : \A y \in S \ {x} : Before(x, y)
       IN <<m>> \o SortItems(S \ {m})

\* Variant: ZRANGE 0 -1, every entry whatever its score.
GetAllDelayedJobs(z, t) == SortItems(z)

\* GetReadyDelayedJobs: score := now.Unix(); ZRANGEBYSCORE -inf score
GetReadyDelayedJobs(z, t) == SortItems({e \in z : Score(e) <= Unix(t)})

\* Variant: reports success and removes nothing.
RemoveFromDelayedKeeps(z, id) == [err |-> "", z |-> z]

\* RemoveFromDelayed: ZRANGE 0 -1, then ZREM of the first member whose
\* job_id matches; "not found" when none matches.
RemoveFromDelayed(z, id) ==
  LET all == SortItems(z)
      hits == {i \in 1..Len(all) : all[i].jobID = id}
  IN IF hits = {} THEN [err |-> "not found in delayed queue", z |-> z]
     ELSE LET i == CHOOSE k \in hits : \A l \in hits : k <= l
          IN [err |-> "", z |-> z \ {all[i]}]

(***************************************************************************)
(* JobHandler.SubmitJob (persist and enqueue part).  The decision of the   *)
(* scheduler is an input here: both outcomes the handler routes on, with   *)
(* the start time the scheduler chose.  SpecSched models how Schedule      *)
(* computes it.                                                            *)
(***************************************************************************)
NoResponse ==
  [code |-> 0, error |-> "", status |-> NoRow, immediate |-> FALSE, enqueueFailed |-> FALSE]

\* Variant: the routing runs also when CreateJob failed.
RouteRegardless(created, imm, q, z, item, enqOk) ==
  IF imm
  THEN [immediate |-> IF enqOk /\ Len(q) < MaxQueue THEN EnqueueImmediate(q, item) ELSE q,
        delayed |-> z, failed |-> ~enqOk]
  ELSE [immediate |-> q, delayed |-> IF enqOk THEN EnqueueDelayed(z, item) ELSE z,
        failed |-> ~enqOk]

\* "if err := h.jobRepo.CreateJob(...); err != nil { return 500 }", then
\* "if immediate { EnqueueImmediate } else { EnqueueDelayed }": an enqueue
\* error is logged and nothing else.
Route(created, imm, q, z, item, enqOk) ==
  IF created.err # "" THEN [immediate |-> q, delayed |-> z, failed |-> FALSE]
  ELSE IF imm
  THEN [immediate |-> IF enqOk /\ Len(q) < MaxQueue THEN EnqueueImmediate(q, item) ELSE q,
        delayed |-> z, failed |-> ~enqOk]
  ELSE [immediate |-> q, delayed |-> IF enqOk THEN EnqueueDelayed(z, item) ELSE z,
        failed |-> ~enqOk]

\* The response: 500 database_error when CreateJob failed, otherwise 201
\* with Status: job.Status, the status the job object was built with.
SubmitResponse(created, jobStatus, imm, enqueueFailed) ==
  IF created.err # ""
  THEN [NoResponse EXCEPT !.code = 500, !.error = "database_error"]
  ELSE [code |-> 201, error |-> "", status |-> jobStatus, immediate |-> imm,
        enqueueFailed |-> enqueueFailed]

SubmitJob ==
  /\ nextJob < MaxSubmits
  /\ \E imm \in BOOLEAN, t \in Times, createOk \in BOOLEAN, enqOk \in BOOLEAN :
       LET id == nextJob + 1
           scheduledTime == IF imm THEN now ELSE t
           created == CreateJob(status, id, JobStatusPending, createOk)
           item == QueueItem(id, scheduledTime)
           routed == Route(created, imm, immediate, delayed, item, enqOk)
       IN /\ nextJob' = id
          /\ status' = created.st
          /\ immediate' = routed.immediate
          /\ delayed' = routed.delayed
          /\ resp' = SubmitResponse(created, JobStatusPending, imm, routed.failed)
  /\ UNCHANGED <<now, wpc, wjob, wout, ppc, pitems, runTransitions, started, logs, lastUpdate>>
  /\ UNCHANGED <<schedVars, breakerVars, fetchVars, queueVars, poolVars, promoVars, repoVars, dockerVars>>

(***************************************************************************)
(* PromoterService                                                         *)
(***************************************************************************)

\* promoteReadyJobs: the scan; the loop over its items follows.
PromoterScan ==
  /\ ppc = "idle"
  /\ \E scanOk \in BOOLEAN :
       LET items == IF scanOk THEN GetReadyDelayedJobs(delayed, now) ELSE <<>>
       IN /\ pitems' = items
          /\ ppc' = IF items = <<>> THEN "idle" ELSE "enqueue"
  /\ UNCHANGED <<status, nextJob, immediate, delayed, now, wpc, wjob, wout,
                 runTransitions, started, logs, lastUpdate>>
  /\ UNCHANGED <<resp, schedVars, breakerVars, fetchVars, queueVars, poolVars, promoVars, repoVars, dockerVars>>

\* promoteJob: `if err := EnqueueImmediate(...); err != nil { return ... }',
\* the variant without the return, then the code.
AfterEnqueueAlwaysRemove(ok) == "remove"

AfterEnqueue(ok) == IF ok THEN "remove" ELSE "return"

\* promoteJob, first call: EnqueueImmediate; on error the item is skipped.
PromoterEnqueue ==
  /\ ppc = "enqueue"
  /\ \E enqOk \in BOOLEAN :
       LET ok == enqOk /\ Len(immediate) < MaxQueue
       IN /\ immediate' = IF ok THEN EnqueueImmediate(immediate, Head(pitems)) ELSE immediate
          /\ promoted' = IF ok THEN promoted \cup {Head(pitems).jobID} ELSE promoted
          /\ IF AfterEnqueue(ok) = "remove"
             THEN /\ ppc' = "remove"
                  /\ UNCHANGED pitems
             ELSE /\ pitems' = Tail(pitems)
                  /\ ppc' = IF Tail(pitems) = <<>> THEN "idle" ELSE "enqueue"
  /\ UNCHANGED <<status, nextJob, delayed, now, wpc, wjob, wout,
                 runTransitions, started, logs, lastUpdate>>
  /\ UNCHANGED <<resp, schedVars, breakerVars, fetchVars, queueVars, poolVars, repoVars, dockerVars>>

\* promoteJob, second call: RemoveFromDelayed; its error is only logged.
PromoterRemove ==
  /\ ppc = "remove"
  /\ \E remOk \in BOOLEAN :
       delayed' = IF remOk THEN RemoveFromDelayed(delayed, Head(pitems).jobID).z ELSE delayed
  /\ pitems' = Tail(pitems)
  /\ ppc' = IF Tail(pitems) = <<>> THEN "idle" ELSE "enqueue"
  /\ UNCHANGED <<status, nextJob, immediate, now, wpc, wjob, wout,
                 runTransitions, started, logs, lastUpdate>>
  /\ UNCHANGED <<resp, schedVars, breakerVars, fetchVars, queueVars, poolVars, promoVars, repoVars, dockerVars>>

\* SubmitJob's delayed branch alone: EnqueueDelayed(jobID, scheduledTime) for
\* a fresh job.
DelayJob ==
  /\ nextJob < MaxJobs
  /\ \E t \in Times :
       delayed' = EnqueueDelayed(delayed, QueueItem(nextJob + 1, t))
  /\ nextJob' = nextJob + 1
  /\ UNCHANGED <<status, immediate, now, wpc, wjob, wout, ppc, pitems,
                 runTransitions, started, logs, lastUpdate>>
  /\ UNCHANGED <<resp, schedVars, breakerVars, fetchVars, queueVars, poolVars, promoVars, repoVars, dockerVars>>

\* A consumer's LPOP on the immediate lane.
LaneDequeue ==
  /\ immediate # <<>>
  /\ immediate' = Tail(immediate)
  /\ UNCHANGED <<status, nextJob, delayed, now, wpc, wjob, wout, ppc, pitems,
                 runTransitions, started, logs, lastUpdate>>
  /\ UNCHANGED <<resp, schedVars, breakerVars, fetchVars, queueVars, poolVars, promoVars, repoVars, dockerVars>>

(***************************************************************************)
(* Consumer                                                                *)
(***************************************************************************)

\* docker.ContainerResult as executeJob reads it: the error RunContainer
\* returned ("" for nil; result.Error is that same error) and ExitCode.
ContainerResult(err, exitCode) == [err |-> err, exitCode |-> exitCode]

NoContainerResult == ContainerResult("none", 0)

\* RunContainer, case <-ctx.Done(): the job context (10 minute timeout, child
\* of the pool's context) ended while the container was running.
CtxDoneError == "context cancelled while waiting for container"

RunContainerReturns ==
  {ContainerResult("", 0), ContainerResult("", 1), ContainerResult("", 2),
   ContainerResult("failed to start container", 0),
   ContainerResult(CtxDoneError, 0)}

\* The job context of consumer w is done: every call made with it fails.
CtxDone(w) == cancelled \/ wout[w].err = CtxDoneError

\* Consumer.pool: Pool.Start calls SetPool on the consumers it creates,
\* Pool.ScaleUp does not, so theirs stays nil.
HasPool(w) == w \in Workers

\* Consumer.Start: case <-ctx.Done() at the top of the polling loop.
WorkerExit(w) ==
  /\ wpc[w] = "idle"
  /\ cancelled
  /\ wpc' = [wpc EXCEPT ![w] = "stopped"]
  /\ UNCHANGED <<status, nextJob, immediate, delayed, now, wjob, wout, ppc, pitems,
                 runTransitions, started, logs, lastUpdate>>
  /\ UNCHANGED <<resp, schedVars, breakerVars, fetchVars, queueVars, poolVars, promoVars, repoVars, dockerVars>>

\* processNextJob: pool.IsDraining() under the pool's mutex; when it is true
\* the poll ends here and the consumer sleeps.
CheckDraining(w) ==
  /\ wpc[w] = "idle"
  /\ ~cancelled
  /\ HasPool(w) => ~shutdownDraining
  /\ wpc' = [wpc EXCEPT ![w] = "dequeue"]
  /\ UNCHANGED <<status, nextJob, immediate, delayed, now, wjob, wout, ppc, pitems,
                 runTransitions, started, logs, lastUpdate>>
  /\ UNCHANGED <<resp, schedVars, breakerVars, fetchVars, queueVars, poolVars, promoVars, repoVars, dockerVars>>

\* processNextJob: LPOP; nil (empty list) or an error ends the poll.
Dequeue(w) ==
  /\ wpc[w] = "dequeue"
  /\ IF cancelled \/ immediate = <<>>
     THEN /\ wpc' = [wpc EXCEPT ![w] = "idle"]
          /\ UNCHANGED <<wjob, immediate>>
     ELSE /\ wjob' = [wjob EXCEPT ![w] = Head(immediate).jobID]
          /\ immediate' = Tail(immediate)
          /\ wpc' = [wpc EXCEPT ![w] = "fetch"]
  /\ UNCHANGED <<status, nextJob, delayed, now, wout, ppc, pitems,
                 runTransitions, started, logs, lastUpdate>>
  /\ UNCHANGED <<resp, schedVars, breakerVars, fetchVars, queueVars, poolVars, promoVars, repoVars, dockerVars>>

\* executeJob: GetJobByID; an error ends the job without any write.
Fetch(w) ==
  /\ wpc[w] = "fetch"
  /\ \E dbOk \in BOOLEAN :
       IF GetJobByID(status, wjob[w], dbOk /\ ~CtxDone(w)).err = ""
       THEN /\ wpc' = [wpc EXCEPT ![w] = "markRunning"]
            /\ UNCHANGED wjob
       ELSE /\ wpc' = [wpc EXCEPT ![w] = "idle"]
            /\ wjob' = [wjob EXCEPT ![w] = 0]
  /\ UNCHANGED <<status, nextJob, immediate, delayed, now, wout, ppc, pitems,
                 runTransitions, started, logs, lastUpdate>>
  /\ UNCHANGED <<resp, schedVars, breakerVars, fetchVars, queueVars, poolVars, promoVars, repoVars, dockerVars>>

\* Pool.TrackJobStart: a job id not yet in the map is added (and the wait
\* group incremented); one already there is left alone.
TrackJobStart(active, id) == active \cup {id}

\* Pool.TrackJobComplete: a job id in the map is deleted (and the wait group
\* decremented).
TrackJobComplete(active, id) == active \ {id}

\* executeJob: UpdateJobStatus(RUNNING), whatever status was fetched; when it
\* is accepted the job is tracked and the consumer goes on into
\* dockerService.RunContainer.
MarkRunning(w) ==
  /\ wpc[w] = "markRunning"
  /\ \E dbOk \in BOOLEAN :
       LET r == UpdateJobStatus(status, wjob[w], JobStatusRunning, dbOk /\ ~CtxDone(w))
       IN /\ status' = r.st
          /\ IF r.err = ""
             THEN /\ wpc' = [wpc EXCEPT ![w] = "running"]
                  /\ runTransitions' =
                       [runTransitions EXCEPT ![wjob[w]] = Bump(runTransitions[wjob[w]])]
                  /\ started' = [started EXCEPT ![wjob[w]] = Bump(started[wjob[w]])]
                  /\ activeJobs' = IF HasPool(w) THEN TrackJobStart(activeJobs, wjob[w])
                                   ELSE activeJobs
                  /\ UNCHANGED wjob
             ELSE /\ wpc' = [wpc EXCEPT ![w] = "idle"]
                  /\ wjob' = [wjob EXCEPT ![w] = 0]
                  /\ UNCHANGED <<runTransitions, started, activeJobs>>
  /\ UNCHANGED <<nextJob, immediate, delayed, now, wout, ppc, pitems, logs, lastUpdate>>
  /\ UNCHANGED <<shutdownDraining, cancelled, mpc, graceOver, inFlightAtStop>>
  /\ UNCHANGED <<resp, schedVars, breakerVars, fetchVars, queueVars, promoVars, repoVars, dockerVars>>

\* RunContainer returns.
ContainerDone(w) ==
  /\ wpc[w] = "running"
  /\ \E r \in RunContainerReturns : wout' = [wout EXCEPT ![w] = r]
  /\ wpc' = [wpc EXCEPT ![w] = "log"]
  /\ UNCHANGED <<status, nextJob, immediate, delayed, now, wjob, ppc, pitems,
                 runTransitions, started, logs, lastUpdate>>
  /\ UNCHANGED <<resp, schedVars, breakerVars, fetchVars, queueVars, poolVars, promoVars, repoVars, dockerVars>>

\* executeJob, lines 158-186: the final status.
FinalStatusByExitCode(r) ==
  IF r.exitCode # 0 THEN JobStatusFailed ELSE JobStatusCompleted

FinalStatus(r) ==
  IF r.err # "" THEN JobStatusFailed
  ELSE IF r.exitCode # 0 THEN JobStatusFailed
  ELSE JobStatusCompleted

\* executeJob, lines 158-186: ErrorMessage of the execution log ("" for nil).
ErrorMessage(r) ==
  IF r.err # "" THEN r.err
  ELSE IF r.exitCode # 0 THEN "Container exited with code " \o ToString(r.exitCode)
  ELSE ""

ExecutionLog(id, r) ==
  [jobID |-> id, exitCode |-> r.exitCode, errorMessage |-> ErrorMessage(r)]

\* ExecutionLogRepository.CreateExecutionLog
CreateExecutionLog(rows, row, dbOk) == IF dbOk THEN rows \cup {row} ELSE rows

\* executeJob: CreateExecutionLog with the job context; a failure is only logged.
WriteLog(w) ==
  /\ wpc[w] = "log"
  /\ \E dbOk \in BOOLEAN :
       logs' = CreateExecutionLog(logs, ExecutionLog(wjob[w], wout[w]), dbOk /\ ~CtxDone(w))
  /\ wpc' = [wpc EXCEPT ![w] = "final"]
  /\ UNCHANGED <<status, nextJob, immediate, delayed, now, wjob, wout, ppc, pitems,
                 runTransitions, started, lastUpdate>>
  /\ UNCHANGED <<resp, schedVars, breakerVars, fetchVars, queueVars, poolVars, promoVars, repoVars, dockerVars>>

\* executeJob: UpdateJobStatus(finalStatus) with the job context, then the
\* deferred TrackJobComplete.
Finish(w) ==
  /\ wpc[w] = "final"
  /\ \E dbOk \in BOOLEAN :
       status' = UpdateJobStatus(status, wjob[w], FinalStatus(wout[w]), dbOk /\ ~CtxDone(w)).st
  /\ activeJobs' = IF HasPool(w) THEN TrackJobComplete(activeJobs, wjob[w]) ELSE activeJobs
  /\ wpc' = [wpc EXCEPT ![w] = "idle"]
  /\ wjob' = [wjob EXCEPT ![w] = 0]
  /\ wout' = [wout EXCEPT ![w] = NoContainerResult]
  /\ UNCHANGED <<nextJob, immediate, delayed, now, ppc, pitems,
                 runTransitions, started, logs, lastUpdate>>
  /\ UNCHANGED <<shutdownDraining, cancelled, mpc, graceOver, inFlightAtStop>>
  /\ UNCHANGED <<resp, schedVars, breakerVars, fetchVars, queueVars, promoVars, repoVars, dockerVars>>

(***************************************************************************)
(* Pool.Stop and the worker's main around it                               *)
(***************************************************************************)

\* Pool.ScaleUp(1): a new consumer is created and started on the pool's
\* context.
ScaleUp ==
  /\ mpc = "running"
  /\ wpc[ScaledWorker] = "absent"
  /\ wpc' = [wpc EXCEPT ![ScaledWorker] = "idle"]
  /\ UNCHANGED <<status, nextJob, immediate, delayed, now, wjob, wout, ppc, pitems,
                 runTransitions, started, logs, lastUpdate>>
  /\ UNCHANGED <<resp, schedVars, breakerVars, fetchVars, queueVars, poolVars, promoVars, repoVars, dockerVars>>

\* main: the signal arrives, shutdownCtx (30 s) is created, and Stop is
\* called on main's own goroutine.  Stop: shutdownDraining = true under the
\* mutex, then runningJobsWg.Wait().
StopBegin ==
  /\ mpc = "running"
  /\ shutdownDraining' = TRUE
  /\ mpc' = "drainWait"
  /\ inFlightAtStop' = {wjob[w] : w \in {v \in AllWorkers : wjob[v] # 0}}
  /\ UNCHANGED <<activeJobs, cancelled, graceOver>>
  /\ UNCHANGED <<jobVars, schedVars, breakerVars, fetchVars, queueVars, promoVars, repoVars, dockerVars>>

\* Stop: runningJobsWg.Wait() returns when no job is tracked; p.cancel().
StopCancel ==
  /\ mpc = "drainWait"
  /\ activeJobs = {}
  /\ cancelled' = TRUE
  /\ mpc' = "workersWait"
  /\ UNCHANGED <<shutdownDraining, activeJobs, graceOver, inFlightAtStop>>
  /\ UNCHANGED <<jobVars, schedVars, breakerVars, fetchVars, queueVars, promoVars, repoVars, dockerVars>>

\* Stop: p.wg.Wait() returns when every consumer goroutine has returned.
StopReturn ==
  /\ mpc = "workersWait"
  /\ \A w \in AllWorkers : wpc[w] \in {"stopped", "absent"}
  /\ mpc' = "select"
  /\ UNCHANGED <<shutdownDraining, activeJobs, cancelled, graceOver, inFlightAtStop>>
  /\ UNCHANGED <<jobVars, schedVars, breakerVars, fetchVars, queueVars, promoVars, repoVars, dockerVars>>

\* The 30 seconds of shutdownCtx run out.
GraceElapses ==
  /\ mpc \in {"drainWait", "workersWait", "select"}
  /\ ~graceOver
  /\ graceOver' = TRUE
  /\ UNCHANGED <<shutdownDraining, activeJobs, cancelled, mpc, inFlightAtStop>>
  /\ UNCHANGED <<jobVars, schedVars, breakerVars, fetchVars, queueVars, promoVars, repoVars, dockerVars>>

\* main: select on done (workerPool.Wait(), the consumers have all returned)
\* and shutdownCtx.Done(); then main returns.
MainExit ==
  /\ mpc = "select"
  /\ mpc' = "exited"
  /\ UNCHANGED <<shutdownDraining, activeJobs, cancelled, graceOver, inFlightAtStop>>
  /\ UNCHANGED <<jobVars, schedVars, breakerVars, fetchVars, queueVars, promoVars, repoVars, dockerVars>>

\* The wall clock advances.
Tick ==
  /\ now < MaxTime
  /\ now' = now + 1
  /\ UNCHANGED <<status, nextJob, immediate, delayed, wpc, wjob, wout, ppc, pitems,
                 runTransitions, started, logs, lastUpdate>>
  /\ UNCHANGED <<resp, schedVars, breakerVars, fetchVars, queueVars, poolVars, promoVars, repoVars, dockerVars>>

(***************************************************************************)
(* CarbonScheduler.  Instants and durations are whole minutes; `now' is    *)
(* the instant of the call (the calls of time.Now() within one Schedule    *)
(* are taken at one instant).  Intensities are positive integers and a     *)
(* mean is the exact fraction [num, den]; the code's float64 comparisons   *)
(* are the comparisons of these fractions.                                 *)
(***************************************************************************)
MaxSlots == 3

SlotDuration == 60
Threshold == 400
FiveMinutes == 5
DefaultWindowSize == 1440
DefaultEstimatedDuration == 10
NearOptimal == 10
MinSavingsPercent == 10
MaxAlternatives == 3

\* The zero time.Time (year 1): before every instant of the model.
ZeroTime == 0 - 100000
IsZero(t) == t = ZeroTime

MinOf(a, b) == IF a < b THEN a ELSE b
Abs(x) == IF x < 0 THEN 0 - x ELSE x

RECURSIVE SumIntensity(_)
SumIntensity(slots) ==
  IF slots = <<>> THEN 0 ELSE Head(slots).intensity + SumIntensity(Tail(slots))

\* calculateAverageIntensity: sum / len, 0 for no slots
calculateAverageIntensity(slots) ==
  IF Len(slots) = 0 THEN [num |-> 0, den |-> 1]
  ELSE [num |-> SumIntensity(slots), den |-> Len(slots)]

\* a < b, a = b and |a - b| < c on fractions with positive denominators
MeanLess(a, b) == a.num * b.den < b.num * a.den
MeanEq(a, b) == a.num * b.den = b.num * a.den
MeanWithin(a, b, c) == Abs(a.num * b.den - b.num * a.den) < c * a.den * b.den

\* buildTimeSlots: the points with minStart <= Timestamp <= deadline
InRange(p, minStart, deadline) == ~(p.ts < minStart) /\ ~(p.ts > deadline)
buildTimeSlots(forecast, minStart, deadline) ==
  SelectSeq(forecast, LAMBDA p : InRange(p, minStart, deadline))

\* math.Ceil(duration / slotDuration) for a positive duration
WindowSlots(duration) == (duration + SlotDuration - 1) \div SlotDuration

TimeWindow(windowSlice) ==
  [startTime |-> windowSlice[1].ts,
   endTime |-> windowSlice[Len(windowSlice)].ts + SlotDuration,
   avg |-> calculateAverageIntensity(windowSlice)]

\* Variant: "<=" in place of "<", so a later window of equal mean wins.
ImprovesOrTies(avg, minIntensity) == ~MeanLess(minIntensity, avg)

\* "if avgIntensity < minIntensity": a window replaces the optimum only
\* when its mean is strictly lower.
Improves(avg, minIntensity) == MeanLess(avg, minIntensity)

\* The sliding loop "for i := 0; i <= len(slots)-windowSlots; i++" from
\* position i (1-based) on; acc.set is FALSE while minIntensity is still
\* math.MaxFloat64.
RECURSIVE Slide(_, _, _, _)
Slide(slots, k, i, acc) ==
  IF i > Len(slots) - k + 1 THEN acc
  ELSE LET w == TimeWindow(SubSeq(slots, i, i + k - 1))
           next ==
             IF ~acc.set \/ Improves(w.avg, acc.min)
             THEN [set |-> TRUE, min |-> w.avg, opt |-> w, alts |-> <<>>]
             ELSE IF MeanWithin(w.avg, acc.min, NearOptimal)
                  THEN [acc EXCEPT !.alts = Append(@, w.startTime)]
                  ELSE acc
       IN Slide(slots, k, i + 1, next)

NoWindow == [startTime |-> ZeroTime, endTime |-> ZeroTime, avg |-> [num |-> 0, den |-> 1]]

\* findOptimalWindow on the slots buildTimeSlots kept (at least one).
findOptimalWindow(slots, duration) ==
  LET k == WindowSlots(duration)
  IN IF k > Len(slots)
     THEN [opt |-> TimeWindow(slots), alts |-> <<>>]
     ELSE LET r == Slide(slots, k, 1, [set |-> FALSE, min |-> [num |-> 0, den |-> 1],
                                       opt |-> NoWindow, alts |-> <<>>])
          IN [opt |-> r.opt,
              alts |-> IF Len(r.alts) > MaxAlternatives
                       THEN SubSeq(r.alts, 1, MaxAlternatives) ELSE r.alts]

\* validateRequest
validateRequest(req, t) ==
  IF req.region = "" THEN "region is required"
  ELSE IF req.duration <= 0 THEN "duration must be positive"
  ELSE IF ~IsZero(req.deadline) /\ req.deadline < t THEN "deadline must be in the future"
  ELSE IF /\ ~IsZero(req.minStart) /\ ~IsZero(req.deadline)
          /\ req.minStart + req.duration > req.deadline
       THEN "not enough time between min start time and deadline"
  ELSE ""

\* Schedule, "Set defaults"
EffWindow(req) == IF req.windowSize = 0 THEN DefaultWindowSize ELSE req.windowSize
EffMinStart(req, t) == IF IsZero(req.minStart) THEN t ELSE req.minStart
\* the range asked of the fetcher: [MinStartTime, min(MinStartTime + WindowSize, Deadline)]
EndTime(req, t) == MinOf(EffMinStart(req, t) + EffWindow(req), req.deadline)

\* time.Since(optimalWindow.StartTime) < 5*time.Minute
AlreadyOptimal(startTime, t) == t - startTime < FiveMinutes

\* savingsPercent < 10.0 with savingsPercent = (current - avg) / current * 100
NegligibleSavings(cur, avg) ==
  (cur * avg.den - avg.num) * 100 < MinSavingsPercent * cur * avg.den

NoResult ==
  [kind |-> "none", err |-> "", scheduledTime |-> ZeroTime, immediate |-> FALSE,
   expected |-> [num |-> 0, den |-> 1], savings |-> [num |-> 0, den |-> 1],
   optStart |-> ZeroTime, alts |-> <<>>, current |-> 0]

\* Schedule(req) at instant t, the fetcher answering `forecast' for the
\* range and `cur' for the current point.
Schedule(req, forecast, cur, t) ==
  LET verr == validateRequest(req, t)
      minStart == EffMinStart(req, t)
      slots == buildTimeSlots(forecast, minStart, req.deadline)
  IN IF verr # "" THEN [NoResult EXCEPT !.kind = "schedule", !.err = verr]
     ELSE IF Len(forecast) = 0
     THEN [NoResult EXCEPT !.kind = "schedule", !.scheduledTime = t, !.immediate = TRUE,
                           !.expected = [num |-> cur, den |-> 1], !.current = cur]
     ELSE IF Len(slots) = 0
     THEN [NoResult EXCEPT !.kind = "schedule", !.err = "panic: index out of range"]
     ELSE LET f == findOptimalWindow(slots, req.duration)
              currentIntensity == forecast[1].intensity
              imm == \/ AlreadyOptimal(f.opt.startTime, t)
                     \/ NegligibleSavings(currentIntensity, f.opt.avg)
                     \/ currentIntensity < Threshold
          IN [kind |-> "schedule", err |-> "",
              scheduledTime |-> IF imm THEN t ELSE f.opt.startTime,
              immediate |-> imm,
              expected |-> f.opt.avg,
              savings |-> [num |-> currentIntensity * f.opt.avg.den - f.opt.avg.num,
                           den |-> f.opt.avg.den],
              optStart |-> f.opt.startTime,
              alts |-> f.alts,
              current |-> currentIntensity]

\* SubmitJob up to the scheduling decision: deadline check, default
\* duration, the request it builds, and the fallback when Schedule fails.
NoEstimate == 0 - 1
\* The handler reads the clock at t, Schedule runs at t2 >= t.
SubmitRequest(deadline, estimate) ==
  [region |-> "US-EAST",
   duration |-> IF estimate # NoEstimate /\ estimate > 0
                THEN estimate ELSE DefaultEstimatedDuration,
   deadline |-> deadline, windowSize |-> DefaultWindowSize, minStart |-> ZeroTime]

\* Variant: a failed Schedule call fails the submission.
SubmitDecisionFails(deadline, estimate, forecast, cur, t, t2) ==
  IF deadline < t
  THEN [NoResult EXCEPT !.kind = "submit", !.err = "invalid_deadline"]
  ELSE LET r == Schedule(SubmitRequest(deadline, estimate), forecast, cur, t2)
       IN [r EXCEPT !.kind = "submit"]

SubmitDecision(deadline, estimate, forecast, cur, t, t2) ==
  IF deadline < t
  THEN [NoResult EXCEPT !.kind = "submit", !.err = "invalid_deadline"]
  ELSE LET r == Schedule(SubmitRequest(deadline, estimate), forecast, cur, t2)
       IN IF r.err # ""
          THEN [NoResult EXCEPT !.kind = "submit", !.scheduledTime = t2, !.immediate = TRUE]
          ELSE [r EXCEPT !.kind = "submit"]

(***************************************************************************)
(* SpecSched: inputs of Schedule and of SubmitJob.                         *)
(***************************************************************************)
Regions == {"", "US-EAST"}
Durations == {0, 10, 60, 120, 180}
Deadlines == {ZeroTime, 0 - 1, 0, 1, 60, 180, 360}
MinStarts == {ZeroTime, 0 - 60, 0, 60}
Estimates == {NoEstimate, 0, 10, 60, 120}
Intensities == {260, 360, 400, 450}
Offsets == {0, 30}
StaticFallback == 400

\* The hourly forecast of scenario E1, starting at the range's start.
E1Forecast == <<450, 410, 370, 260, 290, 320>>

RawForecasts ==
  {E1Forecast} \cup UNION {[1..n -> Intensities] : n \in 0..MaxSlots}

\* CircuitBreaker.fallbackForecast: "for current.Before(endTime)", a point of
\* the static intensity every hour from startTime on; `hour' is one hour in
\* the unit of the clock in use.
RECURSIVE fallbackForecast(_, _, _)
fallbackForecast(current, endTime, hour) ==
  IF current < endTime
  THEN <<[ts |-> current, intensity |-> StaticFallback]>>
         \o fallbackForecast(current + hour, endTime, hour)
  ELSE <<>>

\* time that passes between the handler's reading of the clock and Schedule's
Lags == {0, 1}

\* What a provider, the cache or the breaker's fallback returns for the
\* range [startTime, endTime]: points in ascending order, one per hour
\* from startTime + off on, none outside the range.
ForecastFor(raw, off, startTime, endTime) ==
  SelectSeq([i \in 1..Len(raw) |->
               [ts |-> startTime + off + SlotDuration * (i - 1), intensity |-> raw[i]]],
            LAMBDA p : ~(p.ts < startTime) /\ ~(p.ts > endTime))

NoRequest ==
  [kind |-> "none", region |-> "", duration |-> 0, deadline |-> ZeroTime,
   windowSize |-> 0, minStart |-> ZeroTime, estimate |-> NoEstimate,
   forecast |-> <<>>, cur |-> 0, lag |-> 0]

\* A caller invokes Schedule.
ScheduleCall ==
  /\ sreq.kind = "none"
  /\ \E region \in Regions, duration \in Durations, deadline \in Deadlines,
        minStart \in MinStarts, raw \in RawForecasts, off \in Offsets,
        cur \in Intensities :
       LET req == [kind |-> "schedule", region |-> region, duration |-> duration,
                   deadline |-> deadline, windowSize |-> 0, minStart |-> minStart,
                   estimate |-> NoEstimate]
           fc == ForecastFor(raw, off, EffMinStart(req, now), EndTime(req, now))
       IN /\ (fc # <<>> => cur = StaticFallback)
          /\ (fc = <<>> => raw = <<>> /\ off = 0)
          /\ sreq' = [kind |-> "schedule", region |-> region, duration |-> duration,
                      deadline |-> deadline, windowSize |-> 0, minStart |-> minStart,
                      estimate |-> NoEstimate, forecast |-> fc, cur |-> cur, lag |-> 0]
          /\ sres' = Schedule(req, fc, cur, now)
  /\ UNCHANGED <<jobVars, breakerVars, fetchVars, queueVars, poolVars, promoVars, repoVars, dockerVars>>

\* POST /api/submit up to the decision.
SubmitCall ==
  /\ sreq.kind = "none"
  /\ \E deadline \in Deadlines \ {ZeroTime}, estimate \in Estimates,
        raw \in RawForecasts, off \in Offsets, cur \in Intensities,
        down \in BOOLEAN, lag \in Lags :
       LET t2 == now + lag
           endTime == MinOf(t2 + DefaultWindowSize, deadline)
           fc == IF down THEN fallbackForecast(t2, endTime, SlotDuration)
                 ELSE ForecastFor(raw, off, t2, endTime)
       IN /\ (fc # <<>> => cur = StaticFallback)
          /\ (fc = <<>> \/ down => raw = <<>> /\ off = 0)
          /\ sreq' = [kind |-> "submit", region |-> "US-EAST",
                      duration |-> SubmitRequest(deadline, estimate).duration,
                      deadline |-> deadline, windowSize |-> DefaultWindowSize,
                      minStart |-> ZeroTime, estimate |-> estimate,
                      forecast |-> fc, cur |-> cur, lag |-> lag]
          /\ sres' = SubmitDecision(deadline, estimate, fc, cur, now, t2)
  /\ UNCHANGED <<jobVars, breakerVars, fetchVars, queueVars, poolVars, promoVars, repoVars, dockerVars>>

(***************************************************************************)
(* CircuitBreaker.  A call is GetCarbonIntensity or GetCarbonForecast:     *)
(* both run canAttempt, then the provider call, then recordSuccess or      *)
(* recordFailure.  The lock is held inside each of the three, not across   *)
(* the provider call, so a call is two steps: CallStart (canAttempt and    *)
(* the call going out) and CallSuccess / CallFailure (the provider's       *)
(* answer and its recording).                                              *)
(***************************************************************************)
NumCallers == 2
MaxFailures == 2
Timeout == 2
MaxClock == 4

Callers == 1..NumCallers
StateClosed == "CLOSED"
StateOpen == "OPEN"
StateHalfOpen == "HALF_OPEN"
Never == 0 - 1

CB == [state |-> cbState, failures |-> failures, lastStateTime |-> lastStateTime]

\* canAttempt
canAttempt(cb, t) ==
  IF cb.state = StateClosed THEN [ok |-> TRUE, cb |-> cb]
  ELSE IF cb.state = StateOpen
  THEN IF t - cb.lastStateTime >= Timeout
       THEN [ok |-> TRUE, cb |-> [cb EXCEPT !.state = StateHalfOpen, !.lastStateTime = t]]
       ELSE [ok |-> FALSE, cb |-> cb]
  ELSE [ok |-> TRUE, cb |-> cb]

\* Variant: a failed probe returns to Open without resetting lastStateTime.
recordFailureKeepsTime(cb, t) ==
  LET n == cb.failures + 1
  IN IF cb.state = StateClosed
     THEN IF n >= MaxFailures
          THEN [state |-> StateOpen, failures |-> n, lastStateTime |-> t]
          ELSE [cb EXCEPT !.failures = n]
     ELSE IF cb.state = StateHalfOpen
     THEN [cb EXCEPT !.state = StateOpen, !.failures = MaxFailures]
     ELSE [cb EXCEPT !.failures = n]

\* Variant: the breaker opens one failure late.
recordFailureOpensLate(cb, t) ==
  LET n == cb.failures + 1
  IN IF cb.state = StateClosed
     THEN IF n > MaxFailures
          THEN [state |-> StateOpen, failures |-> n, lastStateTime |-> t]
          ELSE [cb EXCEPT !.failures = n]
     ELSE IF cb.state = StateHalfOpen
     THEN [state |-> StateOpen, failures |-> MaxFailures, lastStateTime |-> t]
     ELSE [cb EXCEPT !.failures = n]

\* recordFailure
recordFailure(cb, t) ==
  LET n == cb.failures + 1
  IN IF cb.state = StateClosed
     THEN IF n >= MaxFailures
          THEN [state |-> StateOpen, failures |-> n, lastStateTime |-> t]
          ELSE [cb EXCEPT !.failures = n]
     ELSE IF cb.state = StateHalfOpen
     THEN [state |-> StateOpen, failures |-> MaxFailures, lastStateTime |-> t]
     ELSE [cb EXCEPT !.failures = n]

\* Variant: a successful probe closes the breaker but keeps the counter.
recordSuccessKeepsCount(cb, t) ==
  IF cb.state = StateClosed THEN [cb EXCEPT !.failures = 0]
  ELSE IF cb.state = StateHalfOpen
  THEN [cb EXCEPT !.state = StateClosed, !.lastStateTime = t]
  ELSE cb

\* Variant: a success in Closed leaves the counter as it is.
recordSuccessKeepsCountClosed(cb, t) ==
  IF cb.state = StateHalfOpen
  THEN [state |-> StateClosed, failures |-> 0, lastStateTime |-> t]
  ELSE cb

\* recordSuccess
recordSuccess(cb, t) ==
  IF cb.state = StateClosed THEN [cb EXCEPT !.failures = 0]
  ELSE IF cb.state = StateHalfOpen
  THEN [state |-> StateClosed, failures |-> 0, lastStateTime |-> t]
  ELSE cb

\* Reset
ResetBreaker(cb, t) == [state |-> StateClosed, failures |-> 0, lastStateTime |-> t]

\* GetCarbonIntensity and GetCarbonForecast have the same three returns.
Methods == {"GetCarbonIntensity", "GetCarbonForecast"}
ProviderError == "provider error"

\* "if !cb.canAttempt() { return cb.fallback...(...), nil }"
RejectReturn(kind) == [val |-> "static-fallback", err |-> ""]

\* Variant: the provider's error is handed to the caller.
FailureReturnsError(kind, err) == [val |-> "none", err |-> err]

\* "if err != nil { cb.recordFailure(err); return cb.fallback...(...), nil }"
FailureReturn(kind, err) == [val |-> "static-fallback", err |-> ""]

\* "cb.recordSuccess(); return result, nil"
SuccessReturn(kind) == [val |-> "live", err |-> ""]

\* History of scenario R4: 1 after Closed -> Open, 2 after the following
\* Open -> HalfOpen, 3 right after the following HalfOpen -> Closed.
Phase(old, new, phase) ==
  IF old = StateClosed /\ new = StateOpen THEN 1
  ELSE IF old = StateOpen /\ new = StateHalfOpen /\ phase = 1 THEN 2
  ELSE IF old = StateHalfOpen /\ new = StateClosed /\ phase = 2 THEN 3
  ELSE IF old # new \/ phase = 3 THEN 0
  ELSE phase

Install(cb, event) ==
  /\ cbState' = cb.state
  /\ failures' = cb.failures
  /\ lastStateTime' = cb.lastStateTime
  /\ openSince' = IF event = "reset" THEN Never
                  ELSE IF cb.state = StateOpen /\ cbState # StateOpen THEN bnow
                  ELSE openSince
  /\ r4phase' = IF event = "reset" THEN 0 ELSE Phase(cbState, cb.state, r4phase)
  /\ lastEvent' = event

CallStart(c) ==
  /\ call[c] = "idle"
  /\ \E kind \in Methods :
       LET r == canAttempt(CB, bnow)
       IN IF r.ok
          THEN /\ Install(r.cb, "admit")
               /\ call' = [call EXCEPT ![c] = "calling"]
               /\ ckind' = [ckind EXCEPT ![c] = kind]
               /\ admittedIn' = [admittedIn EXCEPT ![c] = r.cb.state]
               /\ UNCHANGED <<lastResult, lastErr>>
          ELSE /\ Install(r.cb, "reject")
               /\ lastResult' = [lastResult EXCEPT ![c] = RejectReturn(kind).val]
               /\ lastErr' = [lastErr EXCEPT ![c] = RejectReturn(kind).err]
               /\ UNCHANGED <<call, admittedIn, ckind>>
  /\ UNCHANGED <<bnow, jobVars, schedVars, fetchVars, queueVars, poolVars, promoVars, repoVars, dockerVars>>

CallSuccess(c) ==
  /\ call[c] = "calling"
  /\ Install(recordSuccess(CB, bnow), "success")
  /\ call' = [call EXCEPT ![c] = "idle"]
  /\ ckind' = [ckind EXCEPT ![c] = "none"]
  /\ lastResult' = [lastResult EXCEPT ![c] = SuccessReturn(ckind[c]).val]
  /\ lastErr' = [lastErr EXCEPT ![c] = SuccessReturn(ckind[c]).err]
  /\ UNCHANGED <<admittedIn, bnow, jobVars, schedVars, fetchVars, queueVars, poolVars, promoVars, repoVars, dockerVars>>

CallFailure(c) ==
  /\ call[c] = "calling"
  /\ Install(recordFailure(CB, bnow), "failure")
  /\ call' = [call EXCEPT ![c] = "idle"]
  /\ ckind' = [ckind EXCEPT ![c] = "none"]
  /\ lastResult' = [lastResult EXCEPT ![c] = FailureReturn(ckind[c], ProviderError).val]
  /\ lastErr' = [lastErr EXCEPT ![c] = FailureReturn(ckind[c], ProviderError).err]
  /\ UNCHANGED <<admittedIn, bnow, jobVars, schedVars, fetchVars, queueVars, poolVars, promoVars, repoVars, dockerVars>>

Reset ==
  /\ Install(ResetBreaker(CB, bnow), "reset")
  /\ UNCHANGED <<call, admittedIn, lastResult, ckind, lastErr, bnow, jobVars, schedVars, fetchVars, queueVars, poolVars, promoVars, repoVars, dockerVars>>

BreakerTick ==
  /\ bnow < MaxClock
  /\ bnow' = bnow + 1
  /\ lastEvent' = "tick"
  /\ r4phase' = IF r4phase = 3 THEN 0 ELSE r4phase
  /\ UNCHANGED <<cbState, failures, lastStateTime, call, admittedIn, lastResult, openSince,
                 ckind, lastErr, jobVars, schedVars, fetchVars, queueVars, poolVars, promoVars, repoVars, dockerVars>>

(***************************************************************************)
(* CarbonFetcher over the carbon_cache table and the circuit breaker       *)
(* (SpecFetch).  main wires NewCarbonFetcher(service = the breaker, cache  *)
(* = the table).  The clock bnow counts quarter hours here.  One fetcher   *)
(* call is one step.  The provider answers a point query with a point at   *)
(* the requested instant and a range query with hourly points from the     *)
(* start of the range, or fails.                                           *)
(***************************************************************************)
MaxRangeHours == 3
MaxFetches == 3

QuarterHour == 1
Hour == 4
CacheTTL == 4
LiveIntensity == 260

PointTimes == {0, QuarterHour}
RangeEnds == {Hour \div 2} \cup {Hour * k : k \in 1..MaxRangeHours}
CacheKeys == PointTimes \cup {Hour * k : k \in 0..MaxRangeHours}

NoEntry == [intensity |-> 0, fetchedAt |-> Never, expiresAt |-> Never]
Point(ts, intensity) == [ts |-> ts, intensity |-> intensity]

\* "AND expires_at > NOW()" of both cache queries
Visible(row, t) == row # NoEntry /\ row.expiresAt > t

\* CarbonCacheRepository.IsCacheFresh
IsCacheFresh(row, maxAge, t) == t - row.fetchedAt < maxAge /\ t < row.expiresAt

\* CarbonCacheRepository.GetCarbonIntensity: the visible row nearest to the
\* instant within 15 minutes; the key of the row, Never when there is none.
CacheGetCarbonIntensity(c, ts, t) ==
  LET near == {k \in CacheKeys : Abs(k - ts) <= QuarterHour /\ Visible(c[k], t)}
  IN IF near = {} THEN Never
     ELSE CHOOSE k \in near : \A m \in near : Abs(k - ts) <= Abs(m - ts)

\* The keys of K in ascending order
RECURSIVE Ascending(_)
Ascending(K) ==
  IF K = {} THEN <<>>
  ELSE LET k == CHOOSE x \in K : \A y \in K : x <= y
       IN <<k>> \o Ascending(K \ {k})

\* CarbonCacheRepository.GetCarbonForecast: visible rows with timestamp
\* BETWEEN start AND end, ORDER BY timestamp ASC (their keys)
CacheGetCarbonForecast(c, startTime, endTime, t) ==
  Ascending({k \in CacheKeys : startTime <= k /\ k <= endTime /\ Visible(c[k], t)})

\* SaveCarbonIntensity: upsert on (region, timestamp)
SaveCarbonIntensity(c, p, ttl, t) ==
  [c EXCEPT ![p.ts] = [intensity |-> p.intensity, fetchedAt |-> t, expiresAt |-> t + ttl]]

\* BulkSaveCarbonIntensities
RECURSIVE BulkSaveCarbonIntensities(_, _, _, _)
BulkSaveCarbonIntensities(c, data, ttl, t) ==
  IF data = <<>> THEN c
  ELSE BulkSaveCarbonIntensities(SaveCarbonIntensity(c, Head(data), ttl, t), Tail(data), ttl, t)

\* the cached rows as CarbonIntensity values
AsPoints(c, keys) == [i \in 1..Len(keys) |-> Point(keys[i], c[keys[i]].intensity)]

\* fallbackIntensity
fallbackIntensity(ts) == Point(ts, StaticFallback)

\* the provider's forecast: hourly points, those before startTime or after
\* endTime filtered out
RECURSIVE ProviderForecast(_, _)
ProviderForecast(current, endTime) ==
  IF current <= endTime
  THEN <<Point(current, LiveIntensity)>> \o ProviderForecast(current + Hour, endTime)
  ELSE <<>>

\* CircuitBreaker.GetCarbonIntensity / GetCarbonForecast as one call:
\* canAttempt, the provider's answer, recordSuccess / recordFailure.
BreakerCall(kind, cb, t, providerOk, live, fallback) ==
  LET r == canAttempt(cb, t)
  IN IF ~r.ok
     THEN [cb |-> r.cb, val |-> fallback, err |-> RejectReturn(kind).err,
           called |-> FALSE, failed |-> FALSE, event |-> "reject"]
     ELSE IF providerOk
     THEN [cb |-> recordSuccess(r.cb, t), val |-> live, err |-> SuccessReturn(kind).err,
           called |-> TRUE, failed |-> FALSE, event |-> "success"]
     ELSE [cb |-> recordFailure(r.cb, t), val |-> fallback,
           err |-> FailureReturn(kind, ProviderError).err,
           called |-> TRUE, failed |-> TRUE, event |-> "failure"]

\* int(endTime.Sub(startTime).Hours())
RequiredDataPoints(startTime, endTime) == (endTime - startTime) \div Hour

\* int(float64(requiredDataPoints) * 0.8)
CoverageThreshold(required) == (required * 8) \div 10

NoFetch ==
  [kind |-> "none", startTime |-> 0, endTime |-> 0, cached |-> <<>>, stale |-> NoEntry,
   allFresh |-> TRUE, fromCache |-> FALSE, viaBreaker |-> FALSE, called |-> FALSE, failed |-> FALSE,
   saved |-> FALSE, val |-> <<>>, err |-> ""]

RangeStarts == {0}

\* The row of the table nearest to the instant within 15 minutes that is
\* present but expired or older than maxCacheAge; NoEntry when there is none.
StaleEntry(c, ts, t) ==
  LET near == {k \in CacheKeys : /\ Abs(k - ts) <= QuarterHour /\ c[k] # NoEntry
                                 /\ ~IsCacheFresh(c[k], CacheTTL, t)}
  IN IF near = {} THEN NoEntry
     ELSE c[CHOOSE k \in near : \A m \in near : Abs(k - ts) <= Abs(m - ts)]

\* CarbonFetcher.GetCarbonIntensity
FetcherGetCarbonIntensity(c, cb, ts, t, cacheOk, providerOk, saveOk) ==
  LET k == IF cacheOk THEN CacheGetCarbonIntensity(c, ts, t) ELSE Never
      cached == IF k = Never THEN <<>> ELSE <<Point(k, c[k].intensity)>>
      b == BreakerCall("GetCarbonIntensity", cb, t, providerOk,
                       <<Point(ts, LiveIntensity)>>, <<fallbackIntensity(ts)>>)
      base == [NoFetch EXCEPT !.kind = "point", !.startTime = ts, !.endTime = ts,
                              !.cached = cached, !.stale = StaleEntry(c, ts, t)]
  IN IF k # Never /\ IsCacheFresh(c[k], CacheTTL, t)
     THEN [cache |-> c, cb |-> cb, event |-> "cache",
           res |-> [base EXCEPT !.fromCache = TRUE, !.val = cached]]
     ELSE LET viaB == [base EXCEPT !.viaBreaker = TRUE, !.called = b.called,
                                   !.failed = b.failed]
          IN IF b.err # ""
             THEN [cache |-> c, cb |-> b.cb, event |-> b.event,
                   res |-> IF k # Never
                           THEN [viaB EXCEPT !.val = cached]
                           ELSE [viaB EXCEPT !.err = "failed to fetch carbon intensity from API"]]
             ELSE [cache |-> IF saveOk THEN SaveCarbonIntensity(c, b.val[1], CacheTTL, t) ELSE c,
                   cb |-> b.cb, event |-> b.event,
                   res |-> [viaB EXCEPT !.val = b.val, !.saved = saveOk]]

\* CarbonFetcher.GetCarbonForecast
FetcherGetCarbonForecast(c, cb, startTime, endTime, t, cacheOk, providerOk, saveOk) ==
  LET keys == IF cacheOk THEN CacheGetCarbonForecast(c, startTime, endTime, t) ELSE <<>>
      cached == AsPoints(c, keys)
      required == RequiredDataPoints(startTime, endTime)
      allFresh == \A i \in 1..Len(keys) : IsCacheFresh(c[keys[i]], CacheTTL, t)
      b == BreakerCall("GetCarbonForecast", cb, t, providerOk,
                       ProviderForecast(startTime, endTime),
                       fallbackForecast(startTime, endTime, Hour))
      base == [NoFetch EXCEPT !.kind = "range", !.startTime = startTime, !.endTime = endTime,
                              !.cached = cached, !.allFresh = allFresh]
  IN IF Len(keys) >= CoverageThreshold(required) /\ allFresh
     THEN [cache |-> c, cb |-> cb, event |-> "cache",
           res |-> [base EXCEPT !.fromCache = TRUE, !.val = cached]]
     ELSE LET viaB == [base EXCEPT !.viaBreaker = TRUE, !.called = b.called,
                                   !.failed = b.failed]
          IN IF b.err # ""
             THEN [cache |-> c, cb |-> b.cb, event |-> b.event,
                   res |-> IF Len(keys) > 0
                           THEN [viaB EXCEPT !.val = cached]
                           ELSE [viaB EXCEPT !.err = "failed to fetch carbon forecast from API"]]
             ELSE [cache |-> IF saveOk THEN BulkSaveCarbonIntensities(c, b.val, CacheTTL, t) ELSE c,
                   cb |-> b.cb, event |-> b.event,
                   res |-> [viaB EXCEPT !.val = b.val, !.saved = saveOk]]

FetchPoint ==
  /\ nfetch < MaxFetches
  /\ nfetch' = nfetch + 1
  /\ \E ts \in PointTimes, cacheOk, providerOk, saveOk \in BOOLEAN :
       LET r == FetcherGetCarbonIntensity(cache, CB, ts, bnow, cacheOk, providerOk, saveOk)
       IN /\ cache' = r.cache
          /\ fres' = r.res
          /\ Install(r.cb, r.event)
  /\ UNCHANGED <<call, admittedIn, lastResult, ckind, lastErr, bnow, jobVars, schedVars,
                 queueVars, poolVars, promoVars, repoVars, dockerVars>>

FetchRange ==
  /\ nfetch < MaxFetches
  /\ nfetch' = nfetch + 1
  /\ \E startTime \in RangeStarts, endTime \in RangeEnds, cacheOk, providerOk, saveOk \in BOOLEAN :
       LET r == FetcherGetCarbonForecast(cache, CB, startTime, endTime, bnow,
                                         cacheOk, providerOk, saveOk)
       IN /\ cache' = r.cache
          /\ fres' = r.res
          /\ Install(r.cb, r.event)
  /\ UNCHANGED <<call, admittedIn, lastResult, ckind, lastErr, bnow, jobVars, schedVars,
                 queueVars, poolVars, promoVars, repoVars, dockerVars>>

FetchTick ==
  /\ bnow < MaxClock
  /\ bnow' = bnow + 1
  /\ UNCHANGED <<cbState, failures, lastStateTime, call, admittedIn, lastResult, openSince,
                 lastEvent, r4phase, ckind, lastErr, jobVars, schedVars, fetchVars, queueVars, poolVars, promoVars, repoVars, dockerVars>>


(***************************************************************************)
(* The immediate lane alone (SpecQueue): RPUSH and LPOP on one Redis list. *)
(* Redis runs each command atomically, so each call is one step.  Every    *)
(* appended entry carries the serial number of its RPUSH as history.  A    *)
(* command can fail before it reaches Redis, or its reply can be lost      *)
(* after Redis ran it.                                                     *)
(***************************************************************************)
MaxEnqueues == 3
NumDequeuers == 2

Dequeuers == 1..NumDequeuers
RedisOutcomes == {"ok", "unreachable", "reply lost"}
NoItem == [jobID |-> 0, scheduledTime |-> 0, seq |-> 0]
NoDequeue == [caller |-> 0, item |-> NoItem, err |-> "", wasEmpty |-> FALSE, redis |-> "ok"]

\* Variant: the head is read and left in the list.
DequeuePeek(q, redis) ==
  IF redis = "unreachable"
  THEN [item |-> NoItem, err |-> "failed to dequeue immediate job", q |-> q]
  ELSE IF q = <<>>
  THEN [item |-> NoItem, err |-> IF redis = "ok" THEN "" ELSE "failed to dequeue immediate job",
        q |-> q]
  ELSE IF redis = "ok" THEN [item |-> Head(q), err |-> "", q |-> q]
  ELSE [item |-> NoItem, err |-> "failed to dequeue immediate job", q |-> q]

\* DequeueImmediate: LPOP; redis.Nil (empty list) is (nil, nil)
DequeueImmediate(q, redis) ==
  IF redis = "unreachable"
  THEN [item |-> NoItem, err |-> "failed to dequeue immediate job", q |-> q]
  ELSE IF q = <<>>
  THEN [item |-> NoItem, err |-> IF redis = "ok" THEN "" ELSE "failed to dequeue immediate job",
        q |-> q]
  ELSE IF redis = "ok" THEN [item |-> Head(q), err |-> "", q |-> Tail(q)]
  ELSE [item |-> NoItem, err |-> "failed to dequeue immediate job", q |-> Tail(q)]

\* SubmitJob or promoteJob calls EnqueueImmediate.
QEnqueue ==
  /\ enqCount < MaxEnqueues
  /\ \E id \in JobIds, redis \in RedisOutcomes :
       IF redis = "unreachable"
       THEN UNCHANGED <<immediate, enqCount>>
       ELSE /\ immediate' = EnqueueImmediate(immediate,
                               [jobID |-> id, scheduledTime |-> 0, seq |-> enqCount + 1])
            /\ enqCount' = enqCount + 1
  /\ UNCHANGED <<delivered, qlast>>
  /\ UNCHANGED <<status, nextJob, delayed, now, wpc, wjob, wout, ppc, pitems,
                 runTransitions, started, logs, lastUpdate, resp>>
  /\ UNCHANGED <<schedVars, breakerVars, fetchVars, poolVars, promoVars, repoVars, dockerVars>>

\* A consumer calls DequeueImmediate.
QDequeue(d) ==
  /\ \E redis \in RedisOutcomes :
       LET r == DequeueImmediate(immediate, redis)
       IN /\ immediate' = r.q
          /\ delivered' = IF r.item # NoItem
                          THEN Append(delivered, [item |-> r.item, to |-> d])
                          ELSE delivered
          /\ qlast' = [caller |-> d, item |-> r.item, err |-> r.err,
                       wasEmpty |-> immediate = <<>>, redis |-> redis]
  /\ UNCHANGED enqCount
  /\ UNCHANGED <<status, nextJob, delayed, now, wpc, wjob, wout, ppc, pitems,
                 runTransitions, started, logs, lastUpdate, resp>>
  /\ UNCHANGED <<schedVars, breakerVars, fetchVars, poolVars, promoVars, repoVars, dockerVars>>

(***************************************************************************)
(* JobRepository called directly (SpecStore)                               *)
(***************************************************************************)
StoreCreate ==
  /\ nextJob < MaxJobs
  /\ \E dbOk \in BOOLEAN, given \in {""} \cup JobStatuses :
       /\ status' = CreateJob(status, nextJob + 1, given, dbOk).st
       /\ nextJob' = nextJob + 1
  /\ UNCHANGED <<immediate, delayed, now, wpc, wjob, wout, ppc, pitems,
                 runTransitions, started, logs, lastUpdate>>
  /\ UNCHANGED <<resp, schedVars, breakerVars, fetchVars, queueVars, poolVars, promoVars, repoVars, dockerVars>>

StoreUpdate ==
  /\ \E id \in JobIds, newStatus \in JobStatuses, dbOk \in BOOLEAN :
       LET r == UpdateJobStatus(status, id, newStatus, dbOk)
       IN /\ status' = r.st
          /\ lastUpdate' = [id |-> id, from |-> status[id], to |-> newStatus, err |-> r.err]
  /\ UNCHANGED <<nextJob, immediate, delayed, now, wpc, wjob, wout, ppc, pitems,
                 runTransitions, started, logs>>
  /\ UNCHANGED <<resp, schedVars, breakerVars, fetchVars, queueVars, poolVars, promoVars, repoVars, dockerVars>>

(***************************************************************************)
(* docker.Service.RunContainer, call by call (SpecDocker).  Each call to   *)
(* the daemon made with a context fails when that context is done, and may *)
(* fail for the daemon's own reasons.                                      *)
(***************************************************************************)
MaxRuns == 2
CleanupTimeout == 10

ExitCodes == {0, 1}

\* "context.WithTimeout(context.Background(), 10*time.Second)"; first the
\* variant "context.WithTimeout(ctx, 10*time.Second)".
CleanupContextOfCtx(ctx) == [done |-> ctx # "live", timeout |-> CleanupTimeout]

CleanupContext(ctx) == [done |-> FALSE, timeout |-> CleanupTimeout]

NoRemove == [issued |-> FALSE, force |-> FALSE, ctx |-> [done |-> FALSE, timeout |-> 0], removed |-> FALSE]

\* A client call with ctx reaches the daemon and is carried out.
CallOk(ctx, daemonOk) == ctx = "live" /\ daemonOk

\* executeJob's call: RunContainer(jobCtx, image, command)
RunBegin ==
  /\ dpc \in {"idle", "returned"}
  /\ druns < MaxRuns
  /\ druns' = druns + 1
  /\ dpc' = "pull"
  /\ execCtx' = "live"
  /\ dcontainer' = "none"
  /\ dresult' = NoContainerResult
  /\ dremove' = NoRemove
  /\ UNCHANGED <<jobVars, schedVars, breakerVars, fetchVars, queueVars, poolVars, promoVars, repoVars>>

\* jobCtx: the 10 minute timeout elapses, or the pool cancels.
CtxEnds ==
  /\ dpc \notin {"idle", "returned"}
  /\ execCtx = "live"
  /\ \E how \in {"deadline", "cancelled"} : execCtx' = how
  /\ UNCHANGED <<dpc, dcontainer, dresult, dremove, druns>>
  /\ UNCHANGED <<jobVars, schedVars, breakerVars, fetchVars, queueVars, poolVars, promoVars, repoVars>>

\* "if err := s.PullImage(ctx, imageName); err != nil { return result, err }"
DockerPull ==
  /\ dpc = "pull"
  /\ \E daemonOk \in BOOLEAN :
       IF CallOk(execCtx, daemonOk)
       THEN dpc' = "create" /\ UNCHANGED dresult
       ELSE dpc' = "returned" /\ dresult' = ContainerResult("failed to pull image", 0)
  /\ UNCHANGED <<execCtx, dcontainer, dremove, druns>>
  /\ UNCHANGED <<jobVars, schedVars, breakerVars, fetchVars, queueVars, poolVars, promoVars, repoVars>>

\* ContainerCreate; on error the call returns, on success the cleanup is
\* deferred.
DockerCreate ==
  /\ dpc = "create"
  /\ \E daemonOk \in BOOLEAN :
       IF CallOk(execCtx, daemonOk)
       THEN dpc' = "start" /\ dcontainer' = "created" /\ UNCHANGED dresult
       ELSE /\ dpc' = "returned" /\ UNCHANGED dcontainer
            /\ dresult' = ContainerResult("failed to create container", 0)
  /\ UNCHANGED <<execCtx, dremove, druns>>
  /\ UNCHANGED <<jobVars, schedVars, breakerVars, fetchVars, queueVars, poolVars, promoVars, repoVars>>

\* ContainerStart
DockerStart ==
  /\ dpc = "start"
  /\ \E daemonOk \in BOOLEAN :
       IF CallOk(execCtx, daemonOk)
       THEN dpc' = "wait" /\ dcontainer' = "running" /\ UNCHANGED dresult
       ELSE /\ dpc' = "cleanup" /\ UNCHANGED dcontainer
            /\ dresult' = ContainerResult("failed to start container", 0)
  /\ UNCHANGED <<execCtx, dremove, druns>>
  /\ UNCHANGED <<jobVars, schedVars, breakerVars, fetchVars, queueVars, poolVars, promoVars, repoVars>>

\* ContainerWait and the select on errCh, statusCh and ctx.Done()
DockerWait ==
  /\ dpc = "wait"
  /\ \/ /\ execCtx = "live"
        /\ \E code \in ExitCodes :
             /\ dresult' = ContainerResult("", code)
             /\ dcontainer' = "exited"
             /\ dpc' = "logs"
     \/ /\ dresult' = ContainerResult("error waiting for container", 0)
        /\ dpc' = "cleanup"
        /\ UNCHANGED dcontainer
     \/ /\ execCtx # "live"
        /\ dresult' = ContainerResult(CtxDoneError, 0)
        /\ dpc' = "cleanup"
        /\ UNCHANGED dcontainer
  /\ UNCHANGED <<execCtx, dremove, druns>>
  /\ UNCHANGED <<jobVars, schedVars, breakerVars, fetchVars, queueVars, poolVars, promoVars, repoVars>>

\* ContainerLogs, then StdCopy of the stream
DockerLogs ==
  /\ dpc = "logs"
  /\ \E daemonOk, copyOk \in BOOLEAN :
       /\ dresult' = IF ~CallOk(execCtx, daemonOk)
                     THEN [dresult EXCEPT !.err = "failed to get container logs"]
                     ELSE IF ~copyOk
                     THEN [dresult EXCEPT !.err = "failed to read container logs"]
                     ELSE dresult
  /\ dpc' = "cleanup"
  /\ UNCHANGED <<execCtx, dcontainer, dremove, druns>>
  /\ UNCHANGED <<jobVars, schedVars, breakerVars, fetchVars, queueVars, poolVars, promoVars, repoVars>>

\* The deferred function, run as RunContainer returns: ContainerRemove with
\* Force under the cleanup context; its error is dropped.
DockerCleanup ==
  /\ dpc = "cleanup"
  /\ \E daemonOk \in BOOLEAN :
       LET cleanupCtx == CleanupContext(execCtx)
           removed == ~cleanupCtx.done /\ daemonOk
       IN /\ dremove' = [issued |-> TRUE, force |-> TRUE, ctx |-> cleanupCtx,
                         removed |-> removed]
          /\ dcontainer' = IF removed THEN "removed" ELSE dcontainer
  /\ dpc' = "returned"
  /\ UNCHANGED <<execCtx, dresult, druns>>
  /\ UNCHANGED <<jobVars, schedVars, breakerVars, fetchVars, queueVars, poolVars, promoVars, repoVars>>

(***************************************************************************)
(* Specifications                                                          *)
(***************************************************************************)
(***************************************************************************)
(* JobRepository, one row with its columns (SpecRepo)                      *)
(***************************************************************************)

\* A nullable column or pointer field: <<>> for NULL / nil, <<v>> otherwise.
Null == <<>>
NotNull(v) == <<v>>

JobStatusInputs == {"", JobStatusPending, JobStatusDelayed}
OptTimes == {Null} \cup {NotNull(t) : t \in Times}
OptDurations == {Null, NotNull(DefaultEstimatedDuration)}
OptRegions == {Null, NotNull("US-EAST"), NotNull("EU-WEST")}

\* req.Command of a submission: no command, or an argument vector.
SubmitCommands == {<<>>, <<"echo", "hi">>}

\* json.Marshal of a []string: ["a","b"]
RECURSIVE MarshalElements(_)
MarshalElements(cmd) ==
  IF cmd = <<>> THEN ""
  ELSE "\"" \o Head(cmd) \o "\""
       \o (IF Tail(cmd) = <<>> THEN "" ELSE ",") \o MarshalElements(Tail(cmd))

MarshalCommand(cmd) == "[" \o MarshalElements(cmd) \o "]"

\* SubmitJob: "if len(req.Command) > 0 { ... commandStr = &cmdJSONStr }"
CommandStr(cmd) == IF Len(cmd) > 0 THEN NotNull(MarshalCommand(cmd)) ELSE Null

NoJob ==
  [id |-> 0, status |-> "", scheduledTime |-> Null, createdAt |-> ZeroTime,
   startedAt |-> Null, completedAt |-> Null, deadline |-> ZeroTime,
   estimatedDuration |-> Null, region |-> Null, metadata |-> "", command |-> Null]

NoJobRow ==
  [id |-> 0, status |-> "", scheduled_time |-> Null, created_at |-> ZeroTime,
   started_at |-> Null, completed_at |-> Null, deadline |-> ZeroTime,
   estimated_duration |-> Null, region |-> Null, metadata |-> "", command |-> Null]

\* CreateJob, lines 38-51: the defaults it writes into the caller's job.
WithDefaults(job, t) ==
  [job EXCEPT !.status = IF job.status = "" THEN JobStatusPending ELSE job.status,
              !.createdAt = IF IsZero(job.createdAt) THEN t ELSE job.createdAt,
              !.metadata = IF job.metadata = "" THEN "{}" ELSE job.metadata]

\* CreateJob, lines 25-66: the INSERT names id, status, deadline,
\* estimated_duration, region, metadata and created_at (with user_id,
\* docker_image and command); every other column takes its default, NULL.
InsertJob(job) ==
  [id |-> job.id, status |-> job.status, scheduled_time |-> Null,
   created_at |-> job.createdAt, started_at |-> Null, completed_at |-> Null,
   deadline |-> job.deadline, estimated_duration |-> job.estimatedDuration,
   region |-> job.region, metadata |-> job.metadata, command |-> job.command]

\* GetJobByID, lines 77-101: the SELECT and its Scan.
ScanJob(row) ==
  [id |-> row.id, status |-> row.status, scheduledTime |-> row.scheduled_time,
   createdAt |-> row.created_at, startedAt |-> row.started_at,
   completedAt |-> row.completed_at, deadline |-> row.deadline,
   estimatedDuration |-> row.estimated_duration, region |-> row.region,
   metadata |-> row.metadata, command |-> row.command]

\* container.Config as RunContainer builds it: Cmd is its command argument,
\* and an empty Cmd starts the image's default command.
NoContainerConfig == [created |-> FALSE, Cmd |-> <<>>]
ContainerConfig(command) == [created |-> TRUE, Cmd |-> command]

\* executeJob: "RunContainer(jobCtx, job.DockerImage, nil)", the command
\* argument it passes for a job.
RunContainerCommand(job) == <<>>

\* CreateJob of a job as SubmitJob (or any caller) builds it; the table's
\* CHECK (deadline > created_at) refuses the others.
RepoCreateJob ==
  /\ jrow = NoJobRow
  /\ \E st \in JobStatusInputs, sched \in OptTimes, dl \in Times,
        est \in OptDurations, rg \in OptRegions, cmd \in SubmitCommands,
        dbOk \in BOOLEAN :
       LET job == WithDefaults([NoJob EXCEPT !.id = 1, !.status = st,
                                             !.scheduledTime = sched, !.deadline = dl,
                                             !.estimatedDuration = est, !.region = rg,
                                             !.createdAt = now, !.metadata = "{}",
                                             !.command = CommandStr(cmd)], now)
       IN /\ jgiven' = job
          /\ jrow' = IF dbOk /\ job.deadline > job.createdAt THEN InsertJob(job) ELSE jrow
  /\ UNCHANGED <<jread, containerConfig>>
  /\ UNCHANGED <<jobVars, schedVars, breakerVars, fetchVars, queueVars, poolVars, promoVars, dockerVars>>

\* GetJobByID of the id just created; no row is "job not found".
RepoGetJobByID ==
  /\ jgiven # NoJob
  /\ jrow # NoJobRow
  /\ jread' = ScanJob(jrow)
  /\ UNCHANGED <<jgiven, jrow, containerConfig>>
  /\ UNCHANGED <<jobVars, schedVars, breakerVars, fetchVars, queueVars, poolVars, promoVars, dockerVars>>

\* executeJob after its GetJobByID: RunContainer with the job's image and
\* the command argument, up to the creation of the container.
RepoRunContainer ==
  /\ jread # NoJob
  /\ ~containerConfig.created
  /\ containerConfig' = ContainerConfig(RunContainerCommand(jread))
  /\ UNCHANGED <<jgiven, jrow, jread>>
  /\ UNCHANGED <<jobVars, schedVars, breakerVars, fetchVars, queueVars, poolVars, promoVars, dockerVars>>

Init ==
  /\ status = [j \in JobIds |-> NoRow]
  /\ nextJob = 0
  /\ immediate = <<>>
  /\ delayed = {}
  /\ now = 0
  /\ wpc = [w \in AllWorkers |-> IF w \in Workers THEN "idle" ELSE "absent"]
  /\ wjob = [w \in AllWorkers |-> 0]
  /\ wout = [w \in AllWorkers |-> NoContainerResult]
  /\ ppc = "idle"
  /\ pitems = <<>>
  /\ runTransitions = [j \in JobIds |-> 0]
  /\ started = [j \in JobIds |-> 0]
  /\ logs = {}
  /\ lastUpdate = NoUpdate
  /\ resp = NoResponse
  /\ sreq = NoRequest
  /\ sres = NoResult
  /\ cbState = StateClosed
  /\ failures = 0
  /\ lastStateTime = 0
  /\ bnow = 0
  /\ call = [c \in Callers |-> "idle"]
  /\ admittedIn = [c \in Callers |-> "none"]
  /\ lastResult = [c \in Callers |-> "none"]
  /\ ckind = [c \in Callers |-> "none"]
  /\ lastErr = [c \in Callers |-> ""]
  /\ cache = [k \in CacheKeys |-> NoEntry]
  /\ fres = NoFetch
  /\ nfetch = 0
  /\ enqCount = 0
  /\ delivered = <<>>
  /\ qlast = NoDequeue
  /\ shutdownDraining = FALSE
  /\ activeJobs = {}
  /\ cancelled = FALSE
  /\ mpc = "running"
  /\ graceOver = FALSE
  /\ inFlightAtStop = {}
  /\ promoted = {}
  /\ jgiven = NoJob
  /\ jrow = NoJobRow
  /\ jread = NoJob
  /\ containerConfig = NoContainerConfig
  /\ dpc = "idle"
  /\ execCtx = "live"
  /\ dcontainer = "none"
  /\ dresult = NoContainerResult
  /\ dremove = NoRemove
  /\ druns = 0
  /\ openSince = Never
  /\ lastEvent = "none"
  /\ r4phase = 0

Next ==
  \/ SubmitJob
  \/ PromoterScan
  \/ PromoterEnqueue
  \/ PromoterRemove
  \/ \E w \in Workers : CheckDraining(w)
  \/ \E w \in Workers : Dequeue(w)
  \/ \E w \in Workers : Fetch(w)
  \/ \E w \in Workers : MarkRunning(w)
  \/ \E w \in Workers : ContainerDone(w)
  \/ \E w \in Workers : WriteLog(w)
  \/ \E w \in Workers : Finish(w)
  \/ Tick

Spec == Init /\ [][Next]_vars

\* The promoter over a delayed lane of several entries.
NextPromoter ==
  \/ DelayJob
  \/ PromoterScan
  \/ PromoterEnqueue
  \/ PromoterRemove
  \/ LaneDequeue
  \/ Tick
SpecPromoter == Init /\ [][NextPromoter]_vars

\* The promoter's ticker never stops, the clock advances, consumers keep
\* polling, and a broker call that is retried for ever succeeds in the end.
PromoterScanOk == PromoterScan /\ pitems' # <<>>
PromoterEnqueueOk == PromoterEnqueue /\ immediate' # immediate
PromoterRemoveOk == PromoterRemove /\ delayed' # delayed
SpecPromoterLive ==
  /\ SpecPromoter
  /\ WF_vars(Tick) /\ WF_vars(LaneDequeue)
  /\ WF_vars(PromoterEnqueue) /\ WF_vars(PromoterRemove)
  /\ SF_vars(PromoterScanOk) /\ SF_vars(PromoterEnqueueOk) /\ SF_vars(PromoterRemoveOk)

\* The consumers of one pool, the submissions that feed them, and shutdown.
NextPool ==
  \/ SubmitJob
  \/ \E w \in AllWorkers : CheckDraining(w)
  \/ \E w \in AllWorkers : Dequeue(w)
  \/ \E w \in AllWorkers : Fetch(w)
  \/ \E w \in AllWorkers : MarkRunning(w)
  \/ \E w \in AllWorkers : ContainerDone(w)
  \/ \E w \in AllWorkers : WriteLog(w)
  \/ \E w \in AllWorkers : Finish(w)
  \/ \E w \in AllWorkers : WorkerExit(w)
  \/ ScaleUp
  \/ StopBegin
  \/ StopCancel
  \/ StopReturn
  \/ GraceElapses
  \/ MainExit
SpecPool == Init /\ [][NextPool]_vars

\* The consumers with a store that answers every call made with a live
\* context: GetJobByID finds the row, UpdateJobStatus and CreateExecutionLog
\* are applied.
FetchStoreUp(w) == Fetch(w) /\ wpc'[w] = "markRunning"
MarkRunningStoreUp(w) == MarkRunning(w) /\ wpc'[w] = "running"
WriteLogStoreUp(w) ==
  WriteLog(w) /\ (CtxDone(w) \/ ExecutionLog(wjob[w], wout[w]) \in logs')
FinishStoreUp(w) ==
  Finish(w) /\ (CtxDone(w) \/ status'[wjob[w]] = FinalStatus(wout[w]))
NextWorkerStoreUp ==
  \/ SubmitJob
  \/ \E w \in Workers : CheckDraining(w)
  \/ \E w \in Workers : Dequeue(w)
  \/ \E w \in Workers : FetchStoreUp(w)
  \/ \E w \in Workers : MarkRunningStoreUp(w)
  \/ \E w \in Workers : ContainerDone(w)
  \/ \E w \in Workers : WriteLogStoreUp(w)
  \/ \E w \in Workers : FinishStoreUp(w)
  \/ Tick
\* Consumer.Start loops for ever and every call of executeJob returns.
SpecWorkerLive ==
  /\ Init /\ [][NextWorkerStoreUp]_vars
  /\ \A w \in Workers :
       /\ WF_vars(CheckDraining(w)) /\ WF_vars(Dequeue(w))
       /\ WF_vars(FetchStoreUp(w)) /\ WF_vars(MarkRunningStoreUp(w))
       /\ WF_vars(ContainerDone(w)) /\ WF_vars(WriteLogStoreUp(w))
       /\ WF_vars(FinishStoreUp(w))

NextDocker ==
  RunBegin \/ CtxEnds \/ DockerPull \/ DockerCreate \/ DockerStart \/ DockerWait
    \/ DockerLogs \/ DockerCleanup
SpecDocker == Init /\ [][NextDocker]_vars

NextRepo == RepoCreateJob \/ RepoGetJobByID \/ RepoRunContainer \/ Tick
SpecRepo == Init /\ [][NextRepo]_vars

NextStore == StoreCreate \/ StoreUpdate
SpecStore == Init /\ [][NextStore]_vars

NextSched == ScheduleCall \/ SubmitCall
SpecSched == Init /\ [][NextSched]_vars

NextBreaker ==
  \/ \E c \in Callers : CallStart(c)
  \/ \E c \in Callers : CallSuccess(c)
  \/ \E c \in Callers : CallFailure(c)
  \/ Reset
  \/ BreakerTick
SpecBreaker == Init /\ [][NextBreaker]_vars

NextFetch == FetchPoint \/ FetchRange \/ FetchTick
SpecFetch == Init /\ [][NextFetch]_vars

NextQueue == QEnqueue \/ \E d \in Dequeuers : QDequeue(d)
SpecQueue == Init /\ [][NextQueue]_vars

(***************************************************************************)
(* Claims                                                                  *)
(***************************************************************************)

\* C1: for every work item at most one transition to RUNNING is accepted and
\* at most one container is started, also when its queue entry is delivered
\* more than once.
C1_AtMostOneRunning ==
  \A j \in JobIds : runTransitions[j] <= 1 /\ started[j] <= 1

LifecycleEdges ==
  { <<JobStatusPending, JobStatusDelayed>>, <<JobStatusPending, JobStatusRunning>>,
    <<JobStatusDelayed, JobStatusRunning>>, <<JobStatusRunning, JobStatusCompleted>>,
    <<JobStatusRunning, JobStatusFailed>> }

\* C2: UpdateJobStatus returns an error and leaves the stored status as it
\* was for every transition that is not an edge of the lifecycle graph.
C2_RefusesNonEdges ==
  (lastUpdate.id # 0 /\ <<lastUpdate.from, lastUpdate.to>> \notin LifecycleEdges)
    => (lastUpdate.err # "" /\ status[lastUpdate.id] = lastUpdate.from)

\* C3: once the status of a work item is COMPLETED or FAILED no step
\* changes it.
C3_TerminalImmutable ==
  [][\A j \in JobIds : status[j] \in Terminal => status'[j] = status[j]]_vars

\* The slots Schedule slides over, their number of windows, and the sum of
\* the window that starts at slot i.
ReqSlots == buildTimeSlots(sreq.forecast, EffMinStart(sreq, now), sreq.deadline)
ReqK == WindowSlots(sreq.duration)
RECURSIVE WinSum(_, _, _)
WinSum(slots, i, k) == IF k = 0 THEN 0 ELSE slots[i].intensity + WinSum(slots, i + 1, k - 1)
Scheduled == sres.kind = "schedule" /\ sres.err = "" /\ sreq.forecast # <<>>

IsE1 ==
  /\ sreq.duration = 60 /\ sreq.deadline = now + 360
  /\ Len(sreq.forecast) = Len(E1Forecast)
  /\ \A i \in 1..Len(E1Forecast) :
       sreq.forecast[i] = [ts |-> now + SlotDuration * (i - 1), intensity |-> E1Forecast[i]]

\* C4: with a non-empty forecast the decision is immediate iff
\* |optimalStart - now| < 5 min, or savingsPercent < 10, or
\* currentIntensity < threshold; otherwise scheduledTime = optimalStart; the
\* forecast of E1 gives a scheduled decision at now + 3 h.
C4_ImmediacyRule ==
  Scheduled =>
    /\ sres.immediate <=>
         \/ Abs(sres.optStart - now) < FiveMinutes
         \/ NegligibleSavings(sres.current, sres.expected)
         \/ sres.current < Threshold
    /\ ~sres.immediate => sres.scheduledTime = sres.optStart
    /\ IsE1 => ~sres.immediate /\ sres.scheduledTime = now + 180

\* C5: every accepted submission has
\* scheduledTime + estimatedDuration <= deadline.
C5_MeetsDeadline ==
  (sres.kind = "submit" /\ sres.err = "")
    => sres.scheduledTime + sreq.duration <= sreq.deadline

\* C6: for k <= n the window Schedule reports has the least mean of all
\* windows of k consecutive slots, and it is the first of those with that
\* mean.
C6_OptimalWindow ==
  (Scheduled /\ ReqK <= Len(ReqSlots)) =>
    \E i \in 1..(Len(ReqSlots) - ReqK + 1) :
      /\ sres.optStart = ReqSlots[i].ts
      /\ sres.expected = [num |-> WinSum(ReqSlots, i, ReqK), den |-> ReqK]
      /\ \A j \in 1..(Len(ReqSlots) - ReqK + 1) :
           /\ WinSum(ReqSlots, i, ReqK) <= WinSum(ReqSlots, j, ReqK)
           /\ WinSum(ReqSlots, i, ReqK) = WinSum(ReqSlots, j, ReqK) => i <= j

\* C6 witness: two windows share the least mean, a third is worse, and the
\* earlier of the two was reported.
C6_Witness ==
  /\ Scheduled /\ ReqK <= Len(ReqSlots)
  /\ \E i, j, l \in 1..(Len(ReqSlots) - ReqK + 1) :
       /\ i < j
       /\ WinSum(ReqSlots, i, ReqK) = WinSum(ReqSlots, j, ReqK)
       /\ WinSum(ReqSlots, i, ReqK) < WinSum(ReqSlots, l, ReqK)
       /\ \A m \in 1..(Len(ReqSlots) - ReqK + 1) :
            WinSum(ReqSlots, i, ReqK) <= WinSum(ReqSlots, m, ReqK)
       /\ sres.optStart = ReqSlots[i].ts

\* C7: Schedule returns an error exactly when the region is empty, the
\* duration is not positive, the deadline is not after now, or
\* earliest-start (now when unspecified) + duration > deadline.
C7_RejectsExactly ==
  (sres.kind = "schedule" /\ ~IsZero(sreq.deadline)) =>
    (sres.err # "" <=>
       \/ sreq.region = ""
       \/ sreq.duration <= 0
       \/ sreq.deadline <= now
       \/ EffMinStart(sreq, now) + sreq.duration > sreq.deadline)

\* C8: once the breaker has gone to Open (from Closed or from HalfOpen) no
\* call goes out to the provider before Timeout has passed since that
\* transition, unless Reset was called; a request in between is answered
\* with the static fallback.
C8_NoCallWhileOpen ==
  [][ /\ (lastEvent' = "admit" /\ openSince # Never) => bnow - openSince >= Timeout
      /\ (/\ lastEvent' \in {"admit", "reject"}
          /\ cbState = StateOpen /\ bnow - openSince < Timeout)
         => /\ lastEvent' = "reject"
            /\ call' = call
            /\ \E c \in Callers : call[c] = "idle" /\ lastResult'[c] = "static-fallback"
    ]_vars

\* C8 witness: the breaker opened, a request was answered with the
\* fallback and, Timeout after the opening, a call was let out.
C8_Witness ==
  /\ lastEvent = "admit" /\ cbState = StateHalfOpen
  /\ openSince # Never /\ bnow - openSince >= Timeout
  /\ \E c \in Callers : lastResult[c] = "static-fallback"

\* C9: from Closed every failure below MaxFailures only counts, the
\* MaxFailures-th opens the breaker; after Timeout the next request moves
\* it to HalfOpen and goes out; its success closes the breaker with the
\* counter at zero.
C9_RecoveryCycle ==
  [][ /\ (lastEvent' = "failure" /\ cbState = StateClosed /\ failures < MaxFailures - 1)
         => cbState' = StateClosed /\ failures' = failures + 1
      /\ (lastEvent' = "failure" /\ cbState = StateClosed /\ failures = MaxFailures - 1)
         => cbState' = StateOpen /\ lastStateTime' = bnow
      /\ (/\ lastEvent' \in {"admit", "reject"}
          /\ cbState = StateOpen /\ bnow - lastStateTime >= Timeout)
         => cbState' = StateHalfOpen /\ lastEvent' = "admit"
      /\ (lastEvent' = "success" /\ cbState = StateHalfOpen)
         => cbState' = StateClosed /\ failures' = 0
      /\ r4phase' = 3 => cbState' = StateClosed /\ failures' = 0
    ]_vars

\* C9 witness: the cycle Closed, Open, HalfOpen, Closed has just completed.
C9_Witness == r4phase = 3 /\ lastEvent = "success" /\ bnow >= Timeout

\* C10: while the breaker is HalfOpen at most one call admitted in HalfOpen
\* is in flight.
C10_SingleProbe ==
  cbState = StateHalfOpen =>
    Cardinality({c \in Callers : call[c] = "calling" /\ admittedIn[c] = StateHalfOpen}) <= 1

\* C11: GetCarbonIntensity and GetCarbonForecast never hand an error to
\* their caller: whatever the breaker state and whether the request was
\* refused, failed or succeeded, the return is a value (live data or the
\* static fallback) with a nil error.
C11_NeverReturnsError ==
  \A c \in Callers :
    /\ lastErr[c] = ""
    /\ lastResult[c] \in {"none", "live", "static-fallback"}

\* C11 witness: a provider call has just failed with the breaker going to
\* Open, and every caller's last return is the fallback with a nil error.
C11_Witness ==
  /\ lastEvent = "failure" /\ cbState = StateOpen /\ openSince > 0
  /\ \A c \in Callers : lastResult[c] = "static-fallback" /\ lastErr[c] = ""

\* The breaker answered the fetcher with the static fallback.
GotFallback == fres.viaBreaker /\ (~fres.called \/ fres.failed)

\* C12: a point query for which the breaker returned the static fallback
\* while the table holds a stale row for the instant returns that row, not
\* the fallback.
C12_StaleBeatsFallback ==
  (fres.kind = "point" /\ GotFallback /\ fres.stale # NoEntry)
    => /\ fres.err = "" /\ Len(fres.val) = 1
       /\ fres.val[1].intensity = fres.stale.intensity

\* the cached rows make up at least 80% of the hours asked for
Covers80 == Len(fres.cached) * 10 * Hour >= 8 * (fres.endTime - fres.startTime)

\* C13: a range query is answered from the cache, without going to the
\* breaker, iff the cached rows cover at least 80% of the hours asked for
\* and all of them are fresh; otherwise the breaker is called and what it
\* returns is bulk-upserted.
C13_CacheSufficiency ==
  fres.kind = "range" =>
    /\ fres.fromCache <=> (Covers80 /\ fres.allFresh)
    /\ fres.fromCache => ~fres.viaBreaker /\ ~fres.called
    /\ ~fres.fromCache => fres.viaBreaker

\* C14: a range query whose provider call failed returns the cached rows
\* when there are any and the static fallback forecast otherwise.
C14_PartialCacheFallback ==
  (fres.kind = "range" /\ fres.failed) =>
    /\ fres.err = ""
    /\ fres.val = IF fres.cached # <<>> THEN fres.cached
                  ELSE fallbackForecast(fres.startTime, fres.endTime, Hour)

\* The Schedule call of the submission under evaluation returned an error.
SchedulerFailed ==
  Schedule(SubmitRequest(sreq.deadline, sreq.estimate), sreq.forecast, sreq.cur,
           now + sreq.lag).err # ""

\* The fetcher had nothing but the breaker's static fallback to give: the
\* fallback forecast for the range (or no rows), and the fallback point.
CarbonDown ==
  /\ sreq.cur = StaticFallback
  /\ sreq.forecast \in
       {<<>>, fallbackForecast(now + sreq.lag,
                               MinOf(now + sreq.lag + DefaultWindowSize, sreq.deadline),
                               SlotDuration)}

\* C15: a submission that passed the handler's own validation is not failed
\* by missing carbon data: with only static fallback data, or with Schedule
\* returning an error, the decision is immediate with savings 0 and no error.
C15_CarbonFailureInvisible ==
  (sres.kind = "submit" /\ ~(sreq.deadline < now) /\ (CarbonDown \/ SchedulerFailed))
    => sres.err = "" /\ sres.immediate /\ sres.savings.num = 0

\* C15 witness: a submission decided on a fallback forecast of several hours.
C15_Witness ==
  /\ sres.kind = "submit" /\ CarbonDown /\ Len(sreq.forecast) >= 2
  /\ sres.err = "" /\ sres.immediate /\ sres.savings.num = 0

\* the step is a SubmitJob that got as far as CreateJob
Submitted == nextJob' # nextJob

\* C16: a submission whose enqueue failed because the broker is unavailable
\* is answered with 503, not with a success response.
C16_BrokerFailureIs503 ==
  [][(Submitted /\ resp'.enqueueFailed) => resp'.code = 503]_vars

\* C17: every entry of the immediate and of the delayed lane names a job
\* that has a row in the jobs table; a submission whose CreateJob failed is
\* answered with 500 and enqueues nothing.
C17_EnqueuedImpliesPersisted ==
  [][ /\ \A i \in 1..Len(immediate') : status'[immediate'[i].jobID] # NoRow
      /\ \A item \in delayed' : status'[item.jobID] # NoRow
      /\ (Submitted /\ status'[nextJob'] = NoRow)
           => /\ resp'.code = 500
              /\ immediate' = immediate /\ delayed' = delayed
    ]_vars

\* C17 witness: CreateJob failed, the response is 500 and both lanes are
\* as they were.
C17_Witness ==
  /\ nextJob = 1 /\ status[1] = NoRow /\ resp.code = 500
  /\ immediate = <<>> /\ delayed = {}

\* C18: right after an accepted submission the stored status is DELAYED iff
\* the decision was not immediate and PENDING otherwise, and the response
\* reports the stored status.
C18_DelayedIffFutureStart ==
  [][(Submitted /\ resp'.code = 201)
       => /\ status'[nextJob'] = IF resp'.immediate THEN JobStatusPending ELSE JobStatusDelayed
          /\ resp'.status = status'[nextJob']]_vars

\* how often the entry with serial number n is in the lane or was delivered
Copies(n) ==
  Cardinality({i \in 1..Len(immediate) : immediate[i].seq = n})
    + Cardinality({i \in 1..Len(delivered) : delivered[i].item.seq = n})

\* C19: whatever the number of dequeuers, an entry appended once by
\* EnqueueImmediate is returned by DequeueImmediate at most once, and a call
\* on an empty lane returns the no-work value (nil, nil) at once.
C19_DeliveredAtMostOnce ==
  /\ \A i, j \in 1..Len(delivered) : delivered[i].item = delivered[j].item => i = j
  /\ \A n \in 1..enqCount : Copies(n) <= 1
  /\ \A i \in 1..Len(delivered) : delivered[i].item.seq \in 1..enqCount
  /\ (qlast.caller # 0 /\ qlast.wasEmpty /\ qlast.redis = "ok")
       => qlast.item = NoItem /\ qlast.err = ""

\* C19 witness: two entries went to two different callers and a later call
\* found the lane empty.
C19_Witness ==
  /\ \E i, j \in 1..Len(delivered) : delivered[i].to # delivered[j].to
  /\ qlast.wasEmpty /\ qlast.redis = "ok" /\ qlast.item = NoItem

\* C20: entries leave the immediate lane in the order in which their
\* EnqueueImmediate took effect: what was returned so far is in ascending
\* order of RPUSH, ahead of everything still in the lane, which is in
\* ascending order too.
C20_ImmediateLaneFifo ==
  /\ \A i, j \in 1..Len(delivered) : i < j => delivered[i].item.seq < delivered[j].item.seq
  /\ \A i, j \in 1..Len(immediate) : i < j => immediate[i].seq < immediate[j].seq
  /\ \A i \in 1..Len(delivered), j \in 1..Len(immediate) :
       delivered[i].item.seq < immediate[j].seq

\* C20 witness: an entry was returned while two later ones wait in order.
C20_Witness ==
  /\ Len(delivered) >= 1 /\ Len(immediate) >= 2
  /\ delivered[1].item.seq = 1

\* The entries of lane z that are due at instant t: score at most the epoch
\* second of t.
DueSet(z, t) == {e \in z : Score(e) <= Unix(t)}
Range(seq) == {seq[i] : i \in 1..Len(seq)}
AscendingScores(seq) ==
  \A i, k \in 1..Len(seq) : i < k => Score(seq[i]) <= Score(seq[k])
AllItems == {QueueItem(j, t) : j \in JobIds, t \in Times}

\* A promoter tick begins (its scan returned entries) / pushes an entry.
ScanStep == ppc = "idle" /\ pitems' # <<>>
PromoteStep == ppc \in {"enqueue", "remove"} /\ \E e \in AllItems : immediate' = Append(immediate, e)

DueInOrder ==
  /\ ScanStep => /\ Range(pitems') = DueSet(delayed, now)
                 /\ Len(pitems') = Cardinality(DueSet(delayed, now))
                 /\ AscendingScores(pitems')
  /\ PromoteStep => ppc = "enqueue" /\ immediate' = Append(immediate, Head(pitems))

C22_EnqueueBeforeRemove ==
  [][/\ (ppc = "enqueue" /\ immediate' = immediate /\ (ppc' # ppc \/ pitems' # pitems))
          => /\ ppc' # "remove"
             /\ delayed' = delayed
             /\ Head(pitems) \in DueSet(delayed', now')
     /\ \A e \in delayed \ delayed' :
          ppc = "remove" /\ e.jobID = Head(pitems).jobID /\ e.jobID \in promoted]_vars

C22_Witness ==
  /\ ppc = "remove"
  /\ Head(pitems).jobID \in promoted
  /\ \E a \in delayed : /\ a.jobID \notin promoted
                        /\ a.jobID < Head(pitems).jobID
                        /\ Score(a) < Score(Head(pitems))

\* C23: with a live promoter and broker calls that succeed in the end, every
\* entry placed in the delayed lane is eventually pushed to the immediate
\* lane and removed from the delayed lane.
C23_EventuallyPromoted ==
  \A e \in AllItems : (e \in delayed) ~> (e \notin delayed /\ e.jobID \in promoted)

C23_Witness ==
  /\ nextJob = MaxJobs /\ now = MaxTime
  /\ delayed = {} /\ promoted = JobIds
  /\ ppc = "idle"

\* C24: a consumer that fetches the work item of a dequeued entry and finds
\* no row, or a row already COMPLETED or FAILED, drops the entry there: it
\* goes back to polling without a status write, a container or a record.
C24_SpuriousEntryDropped ==
  [][\A w \in Workers :
       (wpc[w] = "fetch" /\ wpc'[w] # "fetch"
          /\ (status[wjob[w]] = NoRow \/ status[wjob[w]] \in Terminal))
         => (wpc'[w] = "idle" /\ wjob'[w] = 0)]_vars

\* What the claim expects of a container result.
ExpectedStatus(r) ==
  IF r.err = "" /\ r.exitCode = 0 THEN JobStatusCompleted ELSE JobStatusFailed
ExpectedExitMessage(n) ==
  IF n = 1 THEN "Container exited with code 1" ELSE "Container exited with code 2"

C26_RecordAfterContainer ==
  [][\A w \in Workers :
       (wpc[w] = "final" /\ wpc'[w] = "idle")
         => \E rec \in logs' : rec.jobID = wjob[w]]_vars

\* C27: once shutdownDraining is set no consumer takes an entry from the
\* immediate lane.
C27_NoDequeueWhileDraining ==
  [][shutdownDraining => \A w \in Workers : ~(wpc[w] = "dequeue" /\ wpc'[w] = "fetch")]_vars

\* C28: when Stop cancels the pool's context, no consumer still holds an
\* entry it had dequeued before Stop was called.
C28_CancelAfterDrain ==
  [][(~cancelled /\ cancelled') => \A w \in Workers : wjob[w] \notin inFlightAtStop]_vars

\* C29: once the 30 s grace window is over while a container is running, the
\* worker process is no longer waiting for it: main is at (or past) its
\* select and can exit.
C29_GraceBoundsDrain ==
  (graceOver /\ \E w \in Workers : wpc[w] = "running") => mpc \in {"select", "exited"}

\* C30: GetJobByID after CreateJob returns the job that was created:
\* scheduled start, status, deadline, region and estimated duration are the
\* same.
C30_CreateThenGet ==
  jread # NoJob =>
    /\ jread.scheduledTime = jgiven.scheduledTime
    /\ jread.status = jgiven.status
    /\ jread.deadline = jgiven.deadline
    /\ jread.region = jgiven.region
    /\ jread.estimatedDuration = jgiven.estimatedDuration

\* The step is the recording of a provider answer by some caller.
Recorded(event) ==
  /\ lastEvent' = event
  /\ \E c \in Callers : call[c] = "calling" /\ call'[c] = "idle"

\* C33: in Closed a success sets the failure counter to zero and a failure
\* adds one to it; the breaker goes from Closed to Open on the failure that
\* brings the counter to MaxFailures, and on no other step.
C33_OpensAtMaxFailures ==
  [][cbState = StateClosed =>
       /\ Recorded("success") => (failures' = 0 /\ cbState' = StateClosed)
       /\ Recorded("failure") => /\ failures' = failures + 1
                                 /\ (cbState' = StateOpen) = (failures' = MaxFailures)
       /\ cbState' = StateOpen => Recorded("failure")]_vars

C33_Witness ==
  /\ cbState = StateOpen /\ lastEvent = "failure"
  /\ failures = MaxFailures /\ openSince = bnow /\ bnow > 0

\* C36: a HalfOpen breaker leaves HalfOpen on a recorded answer only when
\* that answer belongs to a call admitted in HalfOpen, never on the late
\* answer of a call admitted while the breaker was Closed.
C36_OnlyProbeMovesHalfOpen ==
  [][(cbState = StateHalfOpen /\ cbState' # StateHalfOpen /\ lastEvent' # "reset")
       => \E c \in Callers : /\ call[c] = "calling" /\ call'[c] = "idle"
                             /\ admittedIn[c] = StateHalfOpen]_vars

\* C37: Closed implies failures < MaxFailures; Open or HalfOpen implies
\* failures >= MaxFailures.
C37_CounterMatchesState ==
  /\ cbState = StateClosed => failures < MaxFailures
  /\ cbState \in {StateOpen, StateHalfOpen} => failures >= MaxFailures

C37_Witness ==
  /\ cbState = StateHalfOpen /\ failures > MaxFailures
  /\ \E c \in Callers : call[c] = "calling"

\* C38: the consumer added by ScaleUp honours the drain: once
\* shutdownDraining is set it does not go on to dequeue, while it runs a
\* container its job is in activeJobs, and Stop does not cancel the context
\* while its container is running.
C38_ScaledWorkerDrains ==
  [][/\ (shutdownDraining /\ wpc[ScaledWorker] = "idle") => wpc'[ScaledWorker] # "dequeue"
     /\ wpc'[ScaledWorker] = "running" => wjob'[ScaledWorker] \in activeJobs'
     /\ (~cancelled /\ cancelled') => wpc[ScaledWorker] # "running"]_vars

\* C40: a job that was stored and enqueued and is still PENDING has an
\* entry in one of the lanes or is held by a consumer: a failed GetJobByID
\* or UpdateJobStatus(RUNNING) after the dequeue does not drop it.
C40_PendingStaysDeliverable ==
  \A j \in JobIds :
    (j = nextJob /\ resp.code = 201 /\ ~resp.enqueueFailed /\ status[j] = JobStatusPending)
      => \/ \E i \in 1..Len(immediate) : immediate[i].jobID = j
         \/ \E e \in delayed : e.jobID = j
         \/ \E w \in AllWorkers : wjob[w] = j

\* C32: with the store available, a job that a consumer has set to RUNNING
\* eventually is COMPLETED or FAILED.
C32_RunningEndsTerminal ==
  \A j \in JobIds : (status[j] = JobStatusRunning) ~> (status[j] \in Terminal)

\* A job has an entry in the delayed lane or in the immediate lane.
InLanes(z, q, j) ==
  \/ \E e \in z : e.jobID = j
  \/ \E i \in 1..Len(q) : q[i].jobID = j

\* C34: a job that has an entry in one of the lanes keeps one, in the
\* delayed or the immediate lane, through every promoter step and every
\* failure of EnqueueImmediate or RemoveFromDelayed, until a consumer has
\* dequeued it: its last entry goes either by a consumer's dequeue from the
\* head of the immediate lane, or by the promoter's removal from the delayed
\* lane of a job it had put in the immediate lane (which a consumer has
\* dequeued by then, a dequeue being the only step that shortens that lane).
C34_NotLostBetweenLanes ==
  [][\A j \in JobIds :
       (InLanes(delayed, immediate, j) /\ ~InLanes(delayed', immediate', j))
         => \/ /\ immediate # <<>> /\ Head(immediate).jobID = j
               /\ immediate' = Tail(immediate) /\ delayed' = delayed
            \/ /\ j \in promoted
               /\ immediate' = immediate]_vars

C34_Witness ==
  /\ ppc = "idle" /\ nextJob = MaxJobs
  /\ \E e \in delayed : e.jobID \in promoted /\ e \in Range(immediate)
  /\ \E e \in delayed : e.jobID \notin promoted /\ Score(e) <= Unix(now)

\* C35: a query of the fetcher for which the breaker returned its static
\* fallback (the call was rejected, or the provider failed) writes nothing
\* into the cache: neither the upsert of a point query nor the bulk upsert
\* of a range query stores a fallback value.
C35_FallbackNeverCached ==
  [][(nfetch' # nfetch /\ GotFallback') => cache' = cache]_vars

\* C39: the container of a job is created with the argument vector that
\* was submitted with the job: a job stored with a non-empty command never
\* gets a container with an empty Cmd (the image's default command).
C39_RunsSubmittedCommand ==
  (containerConfig.created /\ jread.command # Null)
    => CommandStr(containerConfig.Cmd) = jread.command

\* C31: when RunContainer has returned after creating a container, on
\* whatever path (success, start failure, wait error, log failure, ctx
\* expired or cancelled), it has asked the daemon to remove that container,
\* with Force, under a context of its own that has the 10 second timeout and
\* is not done even when the execution context is; and the container is
\* gone unless the daemon failed that request.
C31_RemovedOnEveryExit ==
  (dpc = "returned" /\ dcontainer # "none")
    => /\ dremove.issued /\ dremove.force
       /\ ~dremove.ctx.done /\ dremove.ctx.timeout = CleanupTimeout
       /\ (dremove.removed => dcontainer = "removed")

\* C31 witness: the execution context expired while the container ran, the
\* wait was abandoned, and the container has been removed.
C31_Witness ==
  /\ dpc = "returned" /\ execCtx = "deadline"
  /\ dresult.err = CtxDoneError
  /\ dremove.issued /\ dcontainer = "removed"

====
